---- MODULE Spec2Model ----
(***************************************************************************)
(* SPI SD card driver acting as an ATA unit (sd.c, spi.c, timer.c).        *)
(*                                                                         *)
(* The driver is one sequential task.  Its position is pc; the functions   *)
(* it calls return through stk.  The card is an arbitrary environment:     *)
(* every byte read from the bus is chosen nondeterministically.  A second  *)
(* user of the SPI bus (another device on channel 2) obtains, selects,     *)
(* deselects and releases the shared bus following the obtain/release      *)
(* discipline.                                                             *)
(*                                                                         *)
(* Time.  timer.c reads the 8 bit TOD register and only ever uses          *)
(* differences (uint8_t)(timer_get() - t).  A TIMER value is therefore     *)
(* kept relative to the current TOD value, as (t - TOD) mod 2^8, and a     *)
(* tick of the TOD register decrements every live TIMER modulo 2^8.        *)
(***************************************************************************)
EXTENDS Integers, Sequences, FiniteSets, TLC

\* ------------------------------------------------------------- bounds
\* TOD ticks per second used by TIMER_MILLIS (timer.h lets the build set it)
TIMER_TICK_FREQ == 4
\* highest unit index a unit structure is created with
MaxUnit == 1
\* largest sector count passed to ata_read / ata_write
MaxCount == 2
\* number of ata_init_unit calls in one run
MaxInits == 2
\* number of sectors one ata_read / ata_write call is followed through (at
\* least MaxCount); a call with count = 0 goes on past any such number
MaxSectors == 2

\* ------------------------------------------------------------- sd.c constants
SD_SECTOR_SIZE == 512
SD_SECTOR_SHIFT == 9
RESET_DELAY_MS == 20
READY_TIMEOUT_MS == 500
INIT_TIMEOUT_MS == 1000
MAX_RESPONSE_POLLS == 10

CMD0 == 0
CMD1 == 1
ACMD41 == 128 + 41
CMD8 == 8
CMD9 == 9
CMD10 == 10
CMD12 == 12
CMD16 == 16
CMD17 == 17
CMD18 == 18
ACMD23 == 128 + 23
CMD24 == 24
CMD25 == 25
CMD55 == 55
CMD58 == 58

\* spi.h
SPI_SPEED_SLOW == 0
SPI_SPEED_FAST == 1
SPI_CHANNEL_1 == 1
SPI_CHANNEL_2 == 2

\* sd.h: word offsets of the IDENTIFY fields
ata_identify_serial == 10
ata_identify_fw_rev == 23
ata_identify_model == 27

\* error kinds of the driver (negative: the code tests them with "< 0")
sdError_OK == 0
sdError_NoCard == 0 - 1
sdError_Timeout == 0 - 2
sdError_BadResponse == 0 - 3
sdError_Unsupported == 0 - 4
\* block size class a bring-up starts from
sdBlockSize_512 == 9

\* exec/errors.h codes returned by ata_read / ata_write
IOERR_OPENFAIL == 0 - 1
IOERR_ABORTED == 0 - 2

\* ------------------------------------------------------------- machine words
\* A uint32_t value v is held as v when v < 2^31 and as v - 2^32 otherwise (its
\* two's complement reading), so that no value of 2^31 or more is ever formed.
Word8 == 2 ^ 8

\* 0x7fffffff
MaxInt == 2 ^ 30 + (2 ^ 30 - 1)

\* bits 30..0 of a word
Low31(a) == IF a < 0 THEN (a + MaxInt) + 1 ELSE a

RECURSIVE BitAnd(_, _)
BitAnd(a, b) ==
    IF a < 0 /\ b < 0 THEN (BitAnd(Low31(a), Low31(b)) - MaxInt) - 1
    ELSE IF a < 0 \/ b < 0 THEN BitAnd(Low31(a), Low31(b))
    ELSE IF a = 0 \/ b = 0 THEN 0
    ELSE (a % 2) * (b % 2) + 2 * BitAnd(a \div 2, b \div 2)

BitOr(a, b) == (a - BitAnd(a, b)) + b

\* a >> n on a uint32_t, n <= 30
Shr(a, n) ==
    IF a >= 0 \/ n = 0 THEN a \div (2 ^ n)
    ELSE ((a \div (2 ^ n)) + 2 ^ (31 - n)) + 2 ^ (31 - n)

\* (uint32_t)(a << n), 1 <= n <= 30: the bits shifted out of the word are dropped,
\* bit 31 - n becomes bit 31
Shl32(a, n) ==
    LET low == (Low31(a) % (2 ^ (31 - n))) * (2 ^ n)
    IN  IF (Low31(a) \div (2 ^ (31 - n))) % 2 = 1 THEN (low - MaxInt) - 1 ELSE low

\* x & 0xffffff00
ClearLow8(x) == x - (x % Word8)

\* a / m on a uint32_t, 2 <= m < 2^31: above 0x7fffffff the word is 2^31 + Low31(a)
\* and 2^31 is (MaxInt \div m) * m + (MaxInt % m) + 1
UDiv32(a, m) ==
    IF a >= 0 THEN a \div m
    ELSE (MaxInt \div m) + (Low31(a) \div m)
             + (((MaxInt % m) + 1 + (Low31(a) % m)) \div m)

\* a <= k on a uint32_t, k < 2^31
ULe32(a, k) == a >= 0 /\ a <= k

\* --x on a uint32_t: 0 wraps to 0xffffffff
Dec32(x) == IF x = (0 - MaxInt) - 1 THEN MaxInt ELSE x - 1

\* ------------------------------------------------------------- timer.c / timer.h
TIMER_MILLIS(ms) == (ms * TIMER_TICK_FREQ + 999) \div 1000

\* a TIMER that is not running
NoTimer == 0 - 1

\* timer_set: timer_get() + ticks, ticks capped at 128; relative to TOD
timer_set(ticks) == (IF ticks > 128 THEN 128 ELSE ticks) % Word8

\* timer_check: ((uint8_t)(timer_get() - timer) > 127) ? 0 : 1
timer_check(timer) == IF ((Word8 - timer) % Word8) > 127 THEN 0 ELSE 1

\* d ticks of the TOD register seen from a TIMER
Elapse(timer, d) == IF timer = NoTimer THEN NoTimer ELSE (timer + Word8 - d) % Word8

\* ------------------------------------------------------------- state
VARIABLES
    pc, stk,                       \* driver task: position and return labels
    unit, ci,                      \* struct IDEUnit fields, sd_card_info_t
    spi, sspi, sem, cs,            \* spi_t, "sspi" resource, its semaphore, /CS lines
    other,                         \* the second bus user
    cmd, arg, pend, res, rv,       \* sd_send_cmd arguments, pending ACMD, results
    err, count, lba, buffer,       \* locals of ata_init_unit / ata_read / ata_write
    icmd, token, rbdst, resp,
    timeout, timeout_rw, start,    \* TIMERs: bring-up poll, ready/token wait, timer_wait
    idbuf,                         \* destination buffer of ata_identify
    inits,                         \* ata_init_unit calls made so far
    call, retval,                  \* the call in progress (or last made) and its result
    hw, sent, stops, done,         \* observers of the call: hardware touched, command
    expiredSeen, readyLate,        \* frames written, stop sequences, sectors moved,
    lateCmds, lastFrame,           \* poll timeout seen / passed, frames after it,
    faults,                        \* the steps of a read / write that failed,
    probe                          \* what CMD0 and CMD8 of a bring-up found

ctl == <<pc, stk>>
dev == <<unit, ci>>
xport == <<spi, sspi, sem, cs>>
regs == <<cmd, arg, pend, res, rv>>
locals == <<err, count, lba, buffer, icmd, token, rbdst, resp>>
timers == <<timeout, timeout_rw, start>>
obs == <<hw, sent, stops, done, expiredSeen, readyLate, lateCmds, lastFrame, faults,
        probe>>
vars == <<pc, stk, unit, ci, spi, sspi, sem, cs, other, cmd, arg, pend, res, rv,
          err, count, lba, buffer, icmd, token, rbdst, resp, timeout, timeout_rw,
          start, idbuf, inits, call, retval, hw, sent, stops, done, expiredSeen,
          readyLate, lateCmds, lastFrame, faults, probe>>

\* ------------------------------------------------------------- card types
sdCardType_None == "None"
sdCardType_SD1_x == "SD1_x"
sdCardType_SD2_0 == "SD2_0"
sdCardType_SDHC == "SDHC"
sdCardType_MMC == "MMC"

CardTypes == {sdCardType_None, sdCardType_SD1_x, sdCardType_SD2_0,
              sdCardType_SDHC, sdCardType_MMC}

\* ------------------------------------------------------------- register decoding
\* sd_card_csd_t after memset(csd, 0, ...): the fields the driver uses later
ZeroCsd == [csd_structure |-> 0, read_block_len |-> 0, write_block_len |-> 0,
            device_size |-> 0, device_size_mult |-> 0]

\* sd_card_cid_t after memset(cid, 0, ...)
ZeroCid == [manufacturer_id |-> 0, product_name |-> <<0, 0, 0, 0, 0>>,
            product_rev |-> 0, product_sn |-> 0]

\* fault variant of csd_lengths_differ: the block lengths are never compared
csd_lengths_differ_never(rbl, wbl) == FALSE

\* if (csd->read_block_len != csd->write_block_len)
csd_lengths_differ(rbl, wbl) == rbl # wbl

\* fault variant of sdsc_device_size: bits 31:30 of the third word are left out
sdsc_device_size_high_only(bits) == BitAnd(Shl32(bits[2], 2), 4092)

\* SD v1.x / v2.0: device_size = (bits[1] << 2) & 0xffc, |= (bits[2] >> 30) & 0x3
sdsc_device_size(bits) ==
    BitOr(BitAnd(Shl32(bits[2], 2), 4092), BitAnd(Shr(bits[3], 30), 3))

\* SDHC: device_size = (bits[1] << 16) & 0x3f, |= (bits[2] >> 16) & 0xffff
sdhc_device_size(bits) ==
    BitOr(BitAnd(Shl32(bits[2], 16), 63), BitAnd(Shr(bits[3], 16), 65535))

\* sd_parse_csd: the card info after the call and the value returned.
\* bits is the 4-word register, bits[1] the first word read.
sd_parse_csd(c, bits) ==
    LET rbl == BitAnd(Shr(bits[2], 16), 15)
        c0 == [ZeroCsd EXCEPT !.csd_structure = BitAnd(Shr(bits[1], 30), 2),
                              !.read_block_len = rbl]
        wbl == BitAnd(Shr(bits[4], 22), 15)
        sdsc == c.type = sdCardType_SD1_x \/ c.type = sdCardType_SD2_0
        dsz == IF sdsc THEN sdsc_device_size(bits) ELSE sdhc_device_size(bits)
        mult == IF sdsc THEN BitAnd(Shr(bits[3], 15), 7) ELSE 0
        total == IF sdsc THEN Shl32(dsz + 1, mult + 2) ELSE Shl32(dsz + 1, 19 - rbl)
        c1 == [c0 EXCEPT !.device_size = dsz, !.device_size_mult = mult,
                         !.write_block_len = wbl]
    IN  IF ~sdsc /\ c.type # sdCardType_SDHC
        THEN [ci |-> [c EXCEPT !.csd = c0], err |-> sdError_Unsupported]
        ELSE IF csd_lengths_differ(rbl, wbl)
        THEN [ci |-> [c EXCEPT !.csd = c1, !.total_sectors = total],
              err |-> sdError_Unsupported]
        ELSE [ci |-> [c EXCEPT !.csd = c1, !.total_sectors = total, !.block_size = rbl],
              err |-> sdError_OK]

\* sd_parse_cid: the card info after the call and the value returned
sd_parse_cid(c, bits) ==
    LET cid == [manufacturer_id |-> BitAnd(Shr(bits[1], 24), 255),
                product_name |-> <<BitAnd(bits[1], 255),
                                   BitAnd(Shr(bits[2], 24), 255),
                                   BitAnd(Shr(bits[2], 16), 255),
                                   BitAnd(Shr(bits[2], 8), 255),
                                   BitAnd(bits[2], 255)>>,
                product_rev |-> BitAnd(Shr(bits[3], 24), 255),
                product_sn |-> BitOr(ClearLow8(Shl32(bits[3], 8)),
                                     BitAnd(Shr(bits[4], 24), 255))]
    IN  [ci |-> [c EXCEPT !.cid = cid], err |-> sdError_OK]

\* ------------------------------------------------------------- CHS geometry
sptt == <<63, 127, 255>>

\* fault variant of GeometryAccepts: the test for small totals is left out
GeometryAccepts_one_tier(total, head, spt) ==
    LET cyl == UDiv32(total, head * spt)
    IN  \/ cyl < 16383
        \/ cyl < 32767 /\ head >= 5
        \/ cyl <= 65535

\* the acceptance tests of the inner loop body for one (head, spt)
GeometryAccepts(total, head, spt) ==
    LET cyl == UDiv32(total, head * spt)
    IN  IF ULe32(total, 1024 * 1024)
        THEN cyl <= 1023
        ELSE \/ cyl < 16383
             \/ cyl < 32767 /\ head >= 5
             \/ cyl <= 65535

\* for (head = 4; head <= 16; head++): head and cyl when the loop is left
RECURSIVE HeadLoop(_, _, _, _)
HeadLoop(total, spt, head, cyl) ==
    IF head > 16 THEN [head |-> head, cyl |-> cyl]
    ELSE IF GeometryAccepts(total, head, spt)
         THEN [head |-> head, cyl |-> UDiv32(total, head * spt)]
         ELSE HeadLoop(total, spt, head + 1, UDiv32(total, head * spt))

\* for (i = 0; i < 3; i++): head, cyl and spt when the loop is left
RECURSIVE SptLoop(_, _)
SptLoop(total, i) ==
    LET r == HeadLoop(total, sptt[i], 4, 0)
    IN  IF r.head <= 16 \/ i = 3
        THEN [head |-> r.head, cyl |-> r.cyl, spt |-> sptt[i]]
        ELSE SptLoop(total, i + 1)

\* while ((blockSize >> blockShift) > 1) blockShift++
RECURSIVE BlockShiftLoop(_, _)
BlockShiftLoop(size, shift) ==
    IF Shr(size, shift) > 1 THEN BlockShiftLoop(size, shift + 1) ELSE shift

\* sd_compute_chs_geometry: the unit after the call
sd_compute_chs_geometry(u, total) ==
    LET g == SptLoop(total, 1)
    IN  [u EXCEPT !.cylinders = g.cyl, !.heads = g.head, !.sectorsPerTrack = g.spt,
                  !.logicalSectors = total, !.blockSize = SD_SECTOR_SIZE,
                  !.blockShift = BlockShiftLoop(SD_SECTOR_SIZE, 0)]

\* ------------------------------------------------------------- IDENTIFY data
\* sd_hex_nibble_to_char on a uint8_t argument
sd_hex_nibble_to_char(c) ==
    LET n == BitAnd(c % Word8, 15) + 48
    IN  IF n > 57 THEN n + 7 ELSE n

MemSet(b, off, v, n) ==
    [i \in DOMAIN b |-> IF i >= off /\ i < off + n THEN v ELSE b[i]]

MemCpy(b, off, s) ==
    [i \in DOMAIN b |-> IF i >= off /\ i < off + Len(s) THEN s[i - off + 1] ELSE b[i]]

\* for (i = 7; i >= 0; i--) { serial[i] = nibble(sn); sn >>= 4; }
SerialChars(sn) == [k \in 1..8 |-> sd_hex_nibble_to_char(Shr(sn, 4 * (8 - k)))]

\* the buffer ata_identify leaves for a card that is there
IdentifyData(b, c) ==
    LET rev == 2 * ata_identify_fw_rev
        mdl == 2 * ata_identify_model
        ser == 2 * ata_identify_serial
        b0 == MemSet(b, 0, 0, SD_SECTOR_SIZE)
        b1 == MemSet(b0, rev, 32, 8)
        b2 == MemCpy(b1, rev, <<sd_hex_nibble_to_char(Shr(c.cid.product_rev, 4)), 46,
                                sd_hex_nibble_to_char(c.cid.product_rev)>>)
        b3 == MemSet(b2, mdl, 32, 40)
        b4 == MemCpy(b3, mdl, <<109, 102, 103, 46>>)
        b5 == MemCpy(b4, mdl + 5, <<sd_hex_nibble_to_char(Shr(c.cid.manufacturer_id, 4)),
                                    sd_hex_nibble_to_char(c.cid.manufacturer_id)>>)
        b6 == MemCpy(b5, mdl + 8, <<83, 68, 45, 67, 65, 82, 68>>)
        b7 == MemCpy(b6, mdl + 16, c.cid.product_name)
        b8 == MemSet(b7, ser, 32, 20)
    IN  MemCpy(b8, ser, SerialChars(c.cid.product_sn))

\* what the caller's buffer holds before the call
CallerBuffer == [i \in 0..(SD_SECTOR_SIZE - 1) |-> 229]

\* ------------------------------------------------------------- environment
\* bytes a card may answer a command with (R1): ready, idle, an error, no answer
R1Bytes == {0, 1, 5, 255}
\* bytes seen while waiting for ready or for a data token
BusBytes == {0, 254, 255}
\* data response bytes after a written block: accepted, CRC error
DataResponses == {229, 235}
\* R7 / R3 payloads: the echoed check pattern, a foreign value, CCS set
R7Words == {426, 0, 2 ^ 30}

\* a 4-word CSD register with the given block length exponents and size fields
MkCsd(rbl, wbl, w1low, w2) == <<0, rbl * (2 ^ 16) + w1low, w2, wbl * (2 ^ 22)>>

\* CSD registers a card may return
CsdRegisters == {MkCsd(9, 9, 3, 2 ^ 30 + 7 * (2 ^ 15)),
                 MkCsd(9, 10, 3, 2 ^ 30),
                 MkCsd(10, 10, 1, 2 ^ 30 + 2 ^ 17)}

\* CID registers a card may return
CidRegisters == {<<3 * (2 ^ 24) + 83 * (2 ^ 16) + 68 * (2 ^ 8) + 83,
                   85 * (2 ^ 24) + 48 * (2 ^ 16) + 56 * (2 ^ 8) + 71,
                   75 * (2 ^ 24) + 1193046, 111 * (2 ^ 24)>>}

\* logical block addresses and sector counts of read / write requests
Lbas == {1, 2 ^ 23 + 1}
Counts == 0..MaxCount

\* ------------------------------------------------------------- initial state
ZeroUnit(n) == [unitNum |-> n, cylinders |-> 0, heads |-> 0, sectorsPerTrack |-> 0,
                blockSize |-> 0, blockShift |-> 0, logicalSectors |-> 0,
                present |-> FALSE, mediumPresent |-> FALSE, atapi |-> FALSE,
                deviceType |-> 0]

\* the C values of bool; retval before a call has returned
false == 0
true == 1
NoValue == 0 - 128

NoPend == [cmd |-> 0 - 1, arg |-> 0]
NoCall == [op |-> "none", count |-> 0, lba |-> 0]

Init ==
    /\ pc = "idle" /\ stk = <<>>
    /\ unit \in {ZeroUnit(n) : n \in 0..MaxUnit}
    /\ ci = [type |-> sdCardType_None, total_sectors |-> 0, block_size |-> 0,
             csd |-> ZeroCsd, cid |-> ZeroCid]
    /\ spi = [bus_taken |-> 0, speed |-> SPI_SPEED_SLOW, channel |-> 0]
    /\ sspi \in BOOLEAN
    /\ sem = [owner |-> "none", nest |-> 0]
    /\ cs = 0
    /\ other = "idle"
    /\ cmd = 0 /\ arg = 0 /\ pend = NoPend /\ res = 0 /\ rv = 0
    /\ err = 0 /\ count = 0 /\ lba = 0 /\ buffer = 0
    /\ icmd = 0 /\ token = 0 /\ rbdst = "none" /\ resp = <<>>
    /\ timeout = NoTimer /\ timeout_rw = NoTimer /\ start = NoTimer
    /\ idbuf = CallerBuffer
    /\ inits = 0
    /\ call = NoCall /\ retval = NoValue
    /\ hw = {} /\ sent = {} /\ stops = 0 /\ done = 0
    /\ expiredSeen = FALSE /\ readyLate = FALSE /\ lateCmds = {} /\ lastFrame = <<>>
    /\ faults = {} /\ probe = "none"

\* ------------------------------------------------------------- spi.c
ObtainSemaphore(s, who) == [owner |-> who, nest |-> s.nest + 1]

ReleaseSemaphore(s) ==
    IF s.nest <= 1 THEN [owner |-> "none", nest |-> 0] ELSE [s EXCEPT !.nest = @ - 1]

\* fault variant of spi_obtain: the semaphore is obtained on every call
spi_obtain_always ==
    /\ sem.owner \in {"none", "driver"}
    /\ sem' = ObtainSemaphore(sem, "driver")
    /\ spi' = [spi EXCEPT !.bus_taken = 1]

\* spi_obtain: blocks in ObtainSemaphore while another task owns the semaphore
spi_obtain ==
    /\ spi.bus_taken # 0 \/ sem.owner \in {"none", "driver"}
    /\ IF spi.bus_taken = 0
       THEN /\ sem' = ObtainSemaphore(sem, "driver")
            /\ spi' = [spi EXCEPT !.bus_taken = 1]
       ELSE UNCHANGED <<sem, spi>>

spi_release ==
    IF spi.bus_taken # 0
    THEN /\ sem' = ReleaseSemaphore(sem)
         /\ spi' = [spi EXCEPT !.bus_taken = 0]
    ELSE UNCHANGED <<sem, spi>>

\* spi_chip_select(spi->channel, ...)
spi_select == cs' = spi.channel

\* spi_chip_select(0x00, ...)
spi_deselect == cs' = 0

spi_set_speed(s, speed) == [s EXCEPT !.speed = speed]

\* ------------------------------------------------------------- calls and returns
Call(target, back) == pc' = target /\ stk' = <<back>> \o stk

Return == pc' = Head(stk) /\ stk' = Tail(stk)

Touch(kinds) == hw' = hw \cup kinds

\* sd_send_cmd(spi, c, a), returning to back
SendCmd(c, a, back) == cmd' = c /\ arg' = a /\ Call("sc_entry", back)

ClearLocals ==
    /\ err' = 0 /\ count' = 0 /\ lba' = 0 /\ buffer' = 0
    /\ icmd' = 0 /\ token' = 0 /\ rbdst' = "none" /\ resp' = <<>>
    /\ timeout' = NoTimer /\ timeout_rw' = NoTimer /\ start' = NoTimer
    /\ cmd' = 0 /\ arg' = 0 /\ pend' = NoPend /\ res' = 0 /\ rv' = 0

\* a driver entry point returns v to its caller
Finish(v) == pc' = "idle" /\ stk' = <<>> /\ retval' = v /\ ClearLocals

\* a driver entry point is entered
Enter(c, first) ==
    /\ pc = "idle"
    /\ pc' = first /\ call' = c /\ retval' = NoValue
    /\ idbuf' = CallerBuffer
    /\ hw' = {} /\ sent' = {} /\ stops' = 0 /\ done' = 0
    /\ expiredSeen' = FALSE /\ readyLate' = FALSE /\ lateCmds' = {}
    /\ lastFrame' = <<>> /\ faults' = {} /\ probe' = "none"

env == <<other, idbuf, inits, call, retval>>
obsf == <<sent, stops, done, expiredSeen, readyLate, lateCmds, lastFrame, probe>>
obsx == <<sent, stops, done, expiredSeen, readyLate, lateCmds, lastFrame, faults,
         probe>>

\* a step of the read / write in progress has failed
Fault(kind) ==
    faults' = (IF call.op \in {"read", "write"} THEN faults \cup {kind} ELSE faults)

\* the step sd_send_cmd is at: the pre-announced count, or the transfer command
CommandKind == IF pend # NoPend \/ cmd = BitAnd(ACMD23, 127) THEN "announce" ELSE "command"

\* ------------------------------------------------------------- sd_deselect
\* spi_deselect(): de-assert /CS
sd_deselect_cs ==
    /\ pc = "ds_cs" /\ pc' = "ds_clk"
    /\ spi_deselect /\ Touch({"cs"})
    /\ UNCHANGED <<stk, dev, spi, sspi, sem, regs, locals, timers, env, obsx>>

\* spi_write(spi, &cmd, 1): 8 more clocks
sd_deselect_clk ==
    /\ pc = "ds_clk" /\ pc' = "ds_rel"
    /\ Touch({"xfer"})
    /\ UNCHANGED <<stk, dev, xport, regs, locals, timers, env, obsx>>

\* fault variant of sd_deselect_rel: returns without spi_release
sd_deselect_rel_keeps_bus ==
    /\ pc = "ds_rel" /\ Return
    /\ UNCHANGED <<dev, xport, regs, locals, timers, env, obs>>

\* spi_release(spi) and return
sd_deselect_rel ==
    /\ pc = "ds_rel" /\ Return
    /\ spi_release /\ Touch({"release"})
    /\ UNCHANGED <<dev, sspi, cs, regs, locals, timers, env, obsx>>

\* ------------------------------------------------------------- sd_wait_ready
sd_wait_ready_set ==
    /\ pc = "wr_set" /\ pc' = "wr_poll"
    /\ timeout_rw' = timer_set(TIMER_MILLIS(READY_TIMEOUT_MS))
    /\ UNCHANGED <<stk, dev, xport, regs, locals, timeout, start, env, obs>>

\* one pass of do { spi_read(&in) } while (in != 0xff && !timer_check(timeout)),
\* during which the TOD register advances by d ticks
sd_wait_ready_poll(d, in) ==
    /\ pc = "wr_poll"
    /\ Touch({"xfer"})
    /\ timeout' = Elapse(timeout, d)
    /\ LET t == Elapse(timeout_rw, d)
       IN  IF in # 255 /\ timer_check(t) = 0
           THEN /\ timeout_rw' = t
                /\ UNCHANGED <<pc, stk, rv>>
           ELSE /\ timeout_rw' = NoTimer
                /\ rv' = (IF in = 255 THEN 0 ELSE sdError_Timeout)
                /\ Return
    /\ UNCHANGED <<dev, xport, cmd, arg, pend, res, locals, start, env, obsx>>

\* ------------------------------------------------------------- sd_select
\* fault variant of sd_select_obtain: goes on to select without spi_obtain
sd_select_obtain_skipped ==
    /\ pc = "sel_obtain" /\ pc' = "sel_cs"
    /\ UNCHANGED <<stk, dev, xport, regs, locals, timers, env, obs>>

sd_select_obtain ==
    /\ pc = "sel_obtain" /\ pc' = "sel_cs"
    /\ spi_obtain /\ Touch({"obtain"})
    /\ UNCHANGED <<stk, dev, sspi, cs, regs, locals, timers, env, obsx>>

\* spi_select(spi), then sd_wait_ready(spi)
sd_select_cs ==
    /\ pc = "sel_cs" /\ Call("wr_set", "sel_chk")
    /\ spi_select /\ Touch({"cs"})
    /\ UNCHANGED <<dev, spi, sspi, sem, regs, locals, timers, env, obsx>>

\* ready: return 0; timeout: spi_deselect() and return sdError_Timeout
sd_select_chk ==
    /\ pc = "sel_chk" /\ Return
    /\ IF rv = 0
       THEN UNCHANGED <<cs, rv, hw>>
       ELSE spi_deselect /\ rv' = sdError_Timeout /\ Touch({"cs"})
    /\ UNCHANGED <<dev, spi, sspi, sem, cmd, arg, pend, res, locals, timers, env, obsx>>

\* ------------------------------------------------------------- sd_read_block
sd_read_block_set ==
    /\ pc = "rb_set" /\ pc' = "rb_tok"
    /\ timeout_rw' = timer_set(TIMER_MILLIS(READY_TIMEOUT_MS))
    /\ UNCHANGED <<stk, dev, xport, regs, locals, timeout, start, env, obs>>

\* fault variant of sd_read_block_token: any byte other than 0xff starts the data
sd_read_block_token_any(d, tok) ==
    /\ pc = "rb_tok"
    /\ Touch({"xfer"})
    /\ token' = tok
    /\ timeout' = Elapse(timeout, d)
    /\ LET t == Elapse(timeout_rw, d)
       IN  IF tok = 255 /\ timer_check(t) = 0
           THEN /\ timeout_rw' = t
                /\ UNCHANGED <<pc, stk, rv, faults>>
           ELSE /\ timeout_rw' = NoTimer
                /\ IF tok = 255
                   THEN rv' = sdError_Timeout /\ Return /\ Fault("data")
                   ELSE pc' = "rb_data" /\ UNCHANGED <<stk, rv, faults>>
    /\ UNCHANGED <<dev, xport, cmd, arg, pend, res, err, count, lba, buffer, icmd,
                   rbdst, resp, start, env, obsf>>

\* one pass of do { spi_read(&token) } while (token == 0xff && !timer_check(timeout)),
\* then the test for the data start token
sd_read_block_token(d, tok) ==
    /\ pc = "rb_tok"
    /\ Touch({"xfer"})
    /\ token' = tok
    /\ timeout' = Elapse(timeout, d)
    /\ LET t == Elapse(timeout_rw, d)
       IN  IF tok = 255 /\ timer_check(t) = 0
           THEN /\ timeout_rw' = t
                /\ UNCHANGED <<pc, stk, rv, faults>>
           ELSE /\ timeout_rw' = NoTimer
                /\ IF tok # 254
                   THEN rv' = sdError_Timeout /\ Return /\ Fault("data")
                   ELSE pc' = "rb_data" /\ UNCHANGED <<stk, rv, faults>>
    /\ UNCHANGED <<dev, xport, cmd, arg, pend, res, err, count, lba, buffer, icmd,
                   rbdst, resp, start, env, obsf>>

\* spi_read(buf, size); spi_read(crc, 2); return 0
sd_read_block_data ==
    /\ pc = "rb_data" /\ Return
    /\ Touch({"xfer"})
    /\ rv' = 0
    /\ resp' \in (CASE rbdst = "cid" -> CidRegisters
                    [] rbdst = "csd" -> CsdRegisters
                    [] OTHER -> {resp})
    /\ UNCHANGED <<dev, xport, cmd, arg, pend, res, err, count, lba, buffer, icmd,
                   token, rbdst, timers, env, obsx>>

\* ------------------------------------------------------------- sd_write_block
sd_write_block_entry ==
    /\ pc = "wb_entry" /\ Call("wr_set", "wb_chk")
    /\ UNCHANGED <<dev, xport, regs, locals, timers, env, obs>>

\* if (sd_wait_ready(spi) < 0) return sdError_Timeout
sd_write_block_chk ==
    /\ pc = "wb_chk"
    /\ IF rv < 0
       THEN rv' = sdError_Timeout /\ Return /\ Fault("ready")
       ELSE pc' = "wb_tok" /\ UNCHANGED <<stk, rv, faults>>
    /\ UNCHANGED <<dev, xport, cmd, arg, pend, res, locals, timers, env, hw, obsf>>

\* spi_write(&token, 1); the stop token 0xfd carries no data
sd_write_block_token ==
    /\ pc = "wb_tok"
    /\ Touch({"xfer"})
    /\ IF token = 253
       THEN stops' = stops + 1 /\ rv' = 0 /\ Return
       ELSE pc' = "wb_data" /\ UNCHANGED <<stk, rv, stops>>
    /\ UNCHANGED <<dev, xport, cmd, arg, pend, res, locals, timers, env, sent, done,
                   expiredSeen, readyLate, lateCmds, lastFrame, faults, probe>>

\* the block, two dummy CRC bytes, then the data response r
sd_write_block_data(r) ==
    /\ pc = "wb_data" /\ Return
    /\ Touch({"xfer"})
    /\ rv' = (IF BitAnd(r, 31) # 5 THEN sdError_BadResponse ELSE 0)
    /\ IF BitAnd(r, 31) # 5 THEN Fault("data") ELSE UNCHANGED faults
    /\ UNCHANGED <<dev, xport, cmd, arg, pend, res, locals, timers, env, obsf>>

\* ------------------------------------------------------------- sd_send_cmd
\* the 6-byte frame built for (c, a)
CommandFrame(c, a) ==
    <<BitOr(64, c), Shr(a, 24) % Word8, Shr(a, 16) % Word8, Shr(a, 8) % Word8,
      a % Word8, IF c = CMD0 THEN 149 ELSE IF c = CMD8 THEN 135 ELSE 1>>

\* if (cmd & 0x80): cmd &= 0x7f and sd_send_cmd(spi, CMD55, 0) runs first
sd_send_cmd_entry ==
    /\ pc = "sc_entry" /\ pc' = "sc_prep"
    /\ IF BitAnd(cmd, 128) # 0
       THEN /\ pend' = [cmd |-> BitAnd(cmd, 127), arg |-> arg]
            /\ cmd' = CMD55 /\ arg' = 0
       ELSE UNCHANGED <<cmd, arg, pend>>
    /\ UNCHANGED <<stk, dev, xport, res, rv, locals, timers, env, obs>>

\* if (cmd != CMD12) sd_deselect(spi) ...
sd_send_cmd_prep ==
    /\ pc = "sc_prep"
    /\ IF cmd # CMD12
       THEN Call("ds_cs", "sc_select")
       ELSE pc' = "sc_frame" /\ UNCHANGED stk
    /\ UNCHANGED <<dev, xport, regs, locals, timers, env, obs>>

\* ... sd_select(spi) ...
sd_send_cmd_select ==
    /\ pc = "sc_select" /\ Call("sel_obtain", "sc_selchk")
    /\ UNCHANGED <<dev, xport, regs, locals, timers, env, obs>>

\* fault variant of sd_send_cmd_selchk: the frame follows whatever sd_select returned
sd_send_cmd_selchk_ignored ==
    /\ pc = "sc_selchk" /\ pc' = "sc_frame"
    /\ UNCHANGED <<stk, dev, xport, regs, locals, timers, env, obs>>

\* ... if (sd_select(spi) < 0) return 0xff
sd_send_cmd_selchk ==
    /\ pc = "sc_selchk"
    /\ IF rv < 0
       THEN pc' = "sc_ret" /\ res' = 255 /\ Fault(CommandKind)
       ELSE pc' = "sc_frame" /\ UNCHANGED <<res, faults>>
    /\ UNCHANGED <<stk, dev, xport, cmd, arg, pend, rv, locals, timers, env, hw, obsf>>

\* spi_write(spi, buf, 6)
sd_send_cmd_frame ==
    /\ pc = "sc_frame"
    /\ pc' = (IF cmd = CMD12 THEN "sc_skip" ELSE "sc_poll")
    /\ Touch({"xfer"})
    /\ sent' = sent \cup {cmd}
    /\ lateCmds' = (IF expiredSeen THEN lateCmds \cup {cmd} ELSE lateCmds)
    /\ stops' = (IF cmd = CMD12 THEN stops + 1 ELSE stops)
    /\ lastFrame' = CommandFrame(cmd, arg)
    /\ UNCHANGED <<stk, dev, xport, regs, locals, timers, env, done, expiredSeen,
                   readyLate, faults, probe>>

\* CMD12: spi_read(spi, &res, 1) skips the filler byte
sd_send_cmd_skip ==
    /\ pc = "sc_skip" /\ pc' = "sc_poll"
    /\ Touch({"xfer"})
    /\ UNCHANGED <<stk, dev, xport, regs, locals, timers, env, obsx>>

\* for (n = 0; n < MAX_RESPONSE_POLLS; n++): the byte the loop ends with is r,
\* one with the top bit clear or the last of MAX_RESPONSE_POLLS filler bytes
sd_send_cmd_poll(r) ==
    /\ pc = "sc_poll" /\ pc' = "sc_ret"
    /\ Touch({"xfer"})
    /\ res' = r
    /\ IF r # 0 THEN Fault(CommandKind) ELSE UNCHANGED faults
    /\ UNCHANGED <<stk, dev, xport, cmd, arg, pend, rv, locals, timers, env, obsf>>

\* fault variant of sd_send_cmd_ret: the ACMD follows whatever CMD55 returned
sd_send_cmd_ret_goes_on ==
    /\ pc = "sc_ret"
    /\ IF pend # NoPend
       THEN /\ cmd' = pend.cmd /\ arg' = pend.arg /\ pend' = NoPend
            /\ pc' = "sc_prep" /\ UNCHANGED stk
       ELSE /\ cmd' = 0 /\ arg' = 0 /\ pend' = NoPend
            /\ Return
    /\ UNCHANGED <<dev, xport, res, rv, locals, timers, env, obs>>

\* return res: from the CMD55 call into the ACMD, or to the caller
sd_send_cmd_ret ==
    /\ pc = "sc_ret"
    /\ IF pend # NoPend /\ res <= 1
       THEN /\ cmd' = pend.cmd /\ arg' = pend.arg /\ pend' = NoPend
            /\ pc' = "sc_prep" /\ UNCHANGED stk
       ELSE /\ cmd' = 0 /\ arg' = 0 /\ pend' = NoPend
            /\ Return
    /\ UNCHANGED <<dev, xport, res, rv, locals, timers, env, obs>>

\* ------------------------------------------------------------- spi_initialize
\* spi_initialize(spi, channel, SysBase): the value returned and the spi_t, the
\* resource and its semaphore after the call; allocOk is AllocMem's outcome
spi_initialize(channel, allocOk) ==
    IF channel # SPI_CHANNEL_1 /\ channel # SPI_CHANNEL_2
    THEN [ret |-> 0 - 1, spi |-> spi, sspi |-> sspi, sem |-> sem]
    ELSE IF ~sspi /\ ~allocOk
    THEN [ret |-> 0 - 1, spi |-> spi, sspi |-> sspi, sem |-> sem]
    ELSE [ret |-> 1,
          spi |-> [bus_taken |-> 0, speed |-> SPI_SPEED_SLOW, channel |-> channel],
          sspi |-> TRUE,
          sem |-> IF sspi THEN sem ELSE [owner |-> "none", nest |-> 0]]

\* ------------------------------------------------------------- timer_wait
\* ticks of the TOD register since timer_wait read start
TimerWaited(s) == (Word8 - s) % Word8

\* ------------------------------------------------------------- ata_init_unit
ata_init_unit_call ==
    /\ inits < MaxInits
    /\ Enter([op |-> "init", count |-> 0, lba |-> 0], "init_begin")
    /\ inits' = inits + 1
    /\ UNCHANGED <<stk, dev, xport, other, regs, locals, timers>>

\* fault variant of ata_init_unit_begin: the unit number is not tested
ata_init_unit_begin_any_unit ==
    /\ pc = "init_begin" /\ pc' = "init_spi"
    /\ unit' = [unit EXCEPT !.cylinders = 0, !.heads = 0, !.sectorsPerTrack = 0,
                            !.blockSize = 0, !.present = FALSE,
                            !.mediumPresent = FALSE, !.atapi = FALSE,
                            !.deviceType = 0]
    /\ UNCHANGED <<stk, ci, xport, regs, locals, timers, env, obs>>

\* the initial values, and the test of the unit number
ata_init_unit_begin ==
    /\ pc = "init_begin"
    /\ unit' = [unit EXCEPT !.cylinders = 0, !.heads = 0, !.sectorsPerTrack = 0,
                            !.blockSize = 0, !.present = FALSE,
                            !.mediumPresent = FALSE, !.atapi = FALSE,
                            !.deviceType = 0]
    /\ IF unit.unitNum > 0
       THEN Finish(false)
       ELSE pc' = "init_spi" /\ UNCHANGED <<stk, retval, regs, locals, timers>>
    /\ UNCHANGED <<ci, xport, other, idbuf, inits, call, obs>>

\* spi_initialize, spi_set_speed(SLOW), type = None, total_sectors = 0
ata_init_unit_spi(allocOk) ==
    /\ pc = "init_spi"
    /\ Touch({"open"})
    /\ LET r == spi_initialize(SPI_CHANNEL_1, allocOk)
       IN  IF r.ret # 1
           THEN Finish(false) /\ UNCHANGED <<ci, spi, sspi, sem>>
           ELSE /\ spi' = spi_set_speed(r.spi, SPI_SPEED_SLOW)
                /\ sspi' = r.sspi /\ sem' = r.sem
                /\ ci' = [ci EXCEPT !.type = sdCardType_None, !.total_sectors = 0,
                                    !.block_size = sdBlockSize_512]
                /\ pc' = "init_obtain"
                /\ UNCHANGED <<stk, retval, regs, locals, timers>>
    /\ UNCHANGED <<unit, cs, other, idbuf, inits, call, obsx>>

\* reset sequence: spi_obtain(spi)
ata_init_unit_obtain ==
    /\ pc = "init_obtain" /\ pc' = "init_desel"
    /\ spi_obtain /\ Touch({"obtain"})
    /\ UNCHANGED <<stk, dev, sspi, cs, regs, locals, timers, env, obsx>>

\* spi_deselect()
ata_init_unit_desel ==
    /\ pc = "init_desel" /\ pc' = "init_clocks"
    /\ spi_deselect /\ Touch({"cs"})
    /\ UNCHANGED <<stk, dev, spi, sspi, sem, regs, locals, timers, env, obsx>>

\* for (i = 0; i < 10; i++) spi_write(spi, &cmd, 1); then timer_wait reads start
ata_init_unit_clocks ==
    /\ pc = "init_clocks" /\ pc' = "init_settle"
    /\ Touch({"xfer"})
    /\ start' = timer_set(0)
    /\ UNCHANGED <<stk, dev, xport, regs, locals, timeout, timeout_rw, env, obsx>>

\* timer_wait: while ((uint8_t)(timer_get() - start) < ticks);
timer_wait_poll(d) ==
    /\ pc = "init_settle"
    /\ Touch({"wait"})
    /\ LET s == Elapse(start, d)
       IN  IF TimerWaited(s) < TIMER_MILLIS(RESET_DELAY_MS)
           THEN start' = s /\ UNCHANGED pc
           ELSE start' = NoTimer /\ pc' = "init_cmd0"
    /\ UNCHANGED <<stk, dev, xport, regs, locals, timeout, timeout_rw, env, obsx>>

\* sd_send_cmd(spi, CMD0, 0)
ata_init_unit_cmd0 ==
    /\ pc = "init_cmd0" /\ SendCmd(CMD0, 0, "init_cmd0_r")
    /\ UNCHANGED <<dev, xport, pend, res, rv, locals, timers, env, obs>>

\* fault variant of ata_init_unit_cmd0_r: CMD8 follows whatever CMD0 returned
ata_init_unit_cmd0_r_goes_on ==
    /\ pc = "init_cmd0_r"
    /\ SendCmd(CMD8, 426, "init_cmd8_r")
    /\ probe' = (IF res = 1 THEN "idle" ELSE "noidle")
    /\ UNCHANGED <<dev, xport, pend, res, rv, locals, timers, env, hw, sent, stops,
                   done, expiredSeen, readyLate, lateCmds, lastFrame, faults>>

\* == 1: sd_send_cmd(spi, CMD8, 0x1aa); otherwise no card
ata_init_unit_cmd0_r ==
    /\ pc = "init_cmd0_r"
    /\ IF res = 1
       THEN SendCmd(CMD8, 426, "init_cmd8_r")
       ELSE pc' = "init_regs" /\ UNCHANGED <<stk, cmd, arg>>
    /\ probe' = (IF res = 1 THEN "idle" ELSE "noidle")
    /\ UNCHANGED <<dev, xport, pend, res, rv, locals, timers, env, hw, sent, stops,
                   done, expiredSeen, readyLate, lateCmds, lastFrame, faults>>

\* CMD8 == 1: read R7 (ocr), 0x1aa starts the v2 poll; otherwise probe ACMD41
ata_init_unit_cmd8_r(ocr) ==
    /\ pc = "init_cmd8_r"
    /\ IF res = 1
       THEN /\ Touch({"xfer"})
            /\ IF ocr = 426
               THEN /\ ci' = [ci EXCEPT !.type = sdCardType_SD2_0]
                    /\ timeout' = timer_set(TIMER_MILLIS(INIT_TIMEOUT_MS))
                    /\ pc' = "init_v2_poll"
               ELSE pc' = "init_regs" /\ UNCHANGED <<ci, timeout>>
            /\ UNCHANGED <<stk, cmd, arg>>
       ELSE /\ SendCmd(ACMD41, 0, "init_v1_probe_r")
            /\ UNCHANGED <<ci, timeout, hw>>
    /\ probe' = (IF res = 1 /\ ocr = 426 THEN "echo" ELSE "noecho")
    /\ UNCHANGED <<unit, xport, pend, res, rv, locals, timeout_rw, start, env, sent,
                   stops, done, expiredSeen, readyLate, lateCmds, lastFrame, faults>>

\* the body of while (sd_send_cmd(...) > 0) { if (timer_check(timeout)) type = None; }
\* and the way out of the loop.  Once the deadline has been seen passed the type
\* is None until the loop is left and a further timer_check changes nothing, so
\* the TIMER is retired at that point instead of being carried through its wrap.
PollCheck(again, out) ==
    /\ IF res > 0
       THEN /\ pc' = again
            /\ IF expiredSeen \/ timer_check(timeout) = 1
               THEN /\ ci' = [ci EXCEPT !.type = sdCardType_None]
                    /\ expiredSeen' = TRUE
                    /\ timeout' = NoTimer
               ELSE UNCHANGED <<ci, expiredSeen, timeout>>
            /\ UNCHANGED readyLate
       ELSE /\ pc' = out
            /\ readyLate' = (expiredSeen \/ timer_check(timeout) = 1)
            /\ timeout' = NoTimer
            /\ UNCHANGED <<ci, expiredSeen>>
    /\ UNCHANGED <<stk, unit, xport, regs, locals, timeout_rw, start, env, hw, sent,
                   stops, done, lateCmds, lastFrame, faults, probe>>

\* sd_send_cmd(spi, ACMD41, 1ul << 30)
ata_init_unit_v2_poll ==
    /\ pc = "init_v2_poll" /\ SendCmd(ACMD41, 2 ^ 30, "init_v2_poll_r")
    /\ UNCHANGED <<dev, xport, pend, res, rv, locals, timers, env, obs>>

ata_init_unit_v2_poll_r ==
    /\ pc = "init_v2_poll_r"
    /\ PollCheck("init_v2_poll", "init_v2_ocr")

\* if (ci->type) sd_send_cmd(spi, CMD58, 0)
ata_init_unit_v2_ocr ==
    /\ pc = "init_v2_ocr"
    /\ IF ci.type # sdCardType_None
       THEN SendCmd(CMD58, 0, "init_v2_ocr_r")
       ELSE pc' = "init_regs" /\ UNCHANGED <<stk, cmd, arg>>
    /\ UNCHANGED <<dev, xport, pend, res, rv, locals, timers, env, obs>>

\* CMD58 == 0: read the OCR, bit 30 makes the card SDHC; otherwise type = None
ata_init_unit_v2_ocr_r(ocr) ==
    /\ pc = "init_v2_ocr_r" /\ pc' = "init_regs"
    /\ IF res = 0
       THEN /\ Touch({"xfer"})
            /\ ci' = (IF BitAnd(ocr, 2 ^ 30) # 0
                      THEN [ci EXCEPT !.type = sdCardType_SDHC] ELSE ci)
       ELSE /\ ci' = [ci EXCEPT !.type = sdCardType_None]
            /\ UNCHANGED hw
    /\ UNCHANGED <<stk, unit, xport, regs, locals, timers, env, obsx>>

\* ACMD41(0) <= 1: SD v1.x polled with ACMD41; otherwise MMC polled with CMD1
ata_init_unit_v1_probe_r ==
    /\ pc = "init_v1_probe_r" /\ pc' = "init_v1_poll"
    /\ IF res <= 1
       THEN ci' = [ci EXCEPT !.type = sdCardType_SD1_x] /\ icmd' = ACMD41
       ELSE ci' = [ci EXCEPT !.type = sdCardType_MMC] /\ icmd' = CMD1
    /\ timeout' = timer_set(TIMER_MILLIS(INIT_TIMEOUT_MS))
    /\ UNCHANGED <<stk, unit, xport, regs, err, count, lba, buffer, token, rbdst, resp,
                   timeout_rw, start, env, obs>>

\* sd_send_cmd(spi, cmd, 0)
ata_init_unit_v1_poll ==
    /\ pc = "init_v1_poll" /\ SendCmd(icmd, 0, "init_v1_poll_r")
    /\ UNCHANGED <<dev, xport, pend, res, rv, locals, timers, env, obs>>

ata_init_unit_v1_poll_r ==
    /\ pc = "init_v1_poll_r"
    /\ PollCheck("init_v1_poll", "init_v1_blk")

\* if (ci->type) sd_send_cmd(spi, CMD16, SD_SECTOR_SIZE)
ata_init_unit_v1_blk ==
    /\ pc = "init_v1_blk"
    /\ IF ci.type # sdCardType_None
       THEN SendCmd(CMD16, SD_SECTOR_SIZE, "init_v1_blk_r")
       ELSE pc' = "init_regs" /\ UNCHANGED <<stk, cmd, arg>>
    /\ UNCHANGED <<dev, xport, pend, res, rv, locals, timers, env, obs>>

\* CMD16 > 0: type = None
ata_init_unit_v1_blk_r ==
    /\ pc = "init_v1_blk_r" /\ pc' = "init_regs"
    /\ ci' = (IF res > 0 THEN [ci EXCEPT !.type = sdCardType_None] ELSE ci)
    /\ UNCHANGED <<stk, unit, xport, regs, locals, timers, env, obs>>

\* if (ci->type) sd_send_cmd(spi, CMD10, 0); else err = sdError_NoCard
ata_init_unit_regs ==
    /\ pc = "init_regs"
    /\ IF ci.type # sdCardType_None
       THEN SendCmd(CMD10, 0, "init_cid_r") /\ UNCHANGED err
       ELSE /\ err' = sdError_NoCard
            /\ pc' = "init_fin" /\ UNCHANGED <<stk, cmd, arg>>
    /\ UNCHANGED <<dev, xport, pend, res, rv, count, lba, buffer, icmd, token, rbdst,
                   resp, timers, env, obs>>

\* CMD10 == 0: sd_read_block(spi, resp, 16); otherwise err = sdError_BadResponse
ata_init_unit_cid_r ==
    /\ pc = "init_cid_r"
    /\ IF res = 0
       THEN rbdst' = "cid" /\ Call("rb_set", "init_cid_rd") /\ UNCHANGED err
       ELSE /\ err' = sdError_BadResponse
            /\ pc' = "init_cid_parse" /\ UNCHANGED <<stk, rbdst>>
    /\ UNCHANGED <<dev, xport, regs, count, lba, buffer, icmd, token, resp, timers,
                   env, obs>>

\* err = sd_read_block(...)
ata_init_unit_cid_rd ==
    /\ pc = "init_cid_rd" /\ pc' = "init_cid_parse"
    /\ err' = rv
    /\ UNCHANGED <<stk, dev, xport, regs, count, lba, buffer, icmd, token, rbdst, resp,
                   timers, env, obs>>

\* if (err == 0) err = sd_parse_cid(ci, resp); if (err == 0) sd_send_cmd(CMD9, 0)
ata_init_unit_cid_parse ==
    /\ pc = "init_cid_parse"
    /\ IF err = 0
       THEN LET r == sd_parse_cid(ci, resp)
            IN  /\ ci' = r.ci /\ err' = r.err
                /\ IF r.err = 0
                   THEN SendCmd(CMD9, 0, "init_csd_r")
                   ELSE pc' = "init_csd_parse" /\ UNCHANGED <<stk, cmd, arg>>
       ELSE pc' = "init_csd_parse" /\ UNCHANGED <<stk, cmd, arg, ci, err>>
    /\ UNCHANGED <<unit, xport, pend, res, rv, count, lba, buffer, icmd, token, rbdst,
                   resp, timers, env, obs>>

\* CMD9 == 0: sd_read_block(spi, resp, 16); otherwise err = sdError_BadResponse
ata_init_unit_csd_r ==
    /\ pc = "init_csd_r"
    /\ IF res = 0
       THEN rbdst' = "csd" /\ Call("rb_set", "init_csd_rd") /\ UNCHANGED err
       ELSE /\ err' = sdError_BadResponse
            /\ pc' = "init_csd_parse" /\ UNCHANGED <<stk, rbdst>>
    /\ UNCHANGED <<dev, xport, regs, count, lba, buffer, icmd, token, resp, timers,
                   env, obs>>

ata_init_unit_csd_rd ==
    /\ pc = "init_csd_rd" /\ pc' = "init_csd_parse"
    /\ err' = rv
    /\ UNCHANGED <<stk, dev, xport, regs, count, lba, buffer, icmd, token, rbdst, resp,
                   timers, env, obs>>

\* if (err == 0) err = sd_parse_csd(ci, resp); then spi_set_speed(spi, FAST)
ata_init_unit_csd_parse ==
    /\ pc = "init_csd_parse" /\ pc' = "init_fin"
    /\ IF err = 0
       THEN LET r == sd_parse_csd(ci, resp)
            IN  ci' = r.ci /\ err' = r.err
       ELSE UNCHANGED <<ci, err>>
    /\ spi' = spi_set_speed(spi, SPI_SPEED_FAST)
    /\ UNCHANGED <<stk, unit, sspi, sem, cs, regs, count, lba, buffer, icmd, token,
                   rbdst, resp, timers, env, obs>>

\* sd_deselect(spi)
ata_init_unit_fin ==
    /\ pc = "init_fin" /\ Call("ds_cs", "init_ret")
    /\ UNCHANGED <<dev, xport, regs, locals, timers, env, obs>>

\* if (err != sdError_OK) return false; present, mediumPresent, CHS; return true
ata_init_unit_ret ==
    /\ pc = "init_ret"
    /\ IF err # sdError_OK
       THEN Finish(false) /\ UNCHANGED unit
       ELSE /\ unit' = sd_compute_chs_geometry(
                           [unit EXCEPT !.present = TRUE, !.mediumPresent = TRUE],
                           ci.total_sectors)
            /\ Finish(true)
    /\ UNCHANGED <<ci, xport, other, idbuf, inits, call, obs>>

\* ------------------------------------------------------------- ata_identify
ata_identify_call ==
    /\ Enter([op |-> "identify", count |-> 0, lba |-> 0], "id_begin")
    /\ UNCHANGED <<stk, dev, xport, other, inits, regs, locals, timers>>

\* no card: return false; otherwise fill the buffer and return true
ata_identify ==
    /\ pc = "id_begin"
    /\ IF ci.type = sdCardType_None
       THEN Finish(false) /\ UNCHANGED idbuf
       ELSE idbuf' = IdentifyData(idbuf, ci) /\ Finish(true)
    /\ UNCHANGED <<dev, xport, other, inits, call, obs>>

\* ------------------------------------------------------------- ata_read
ata_read_call(l, n) ==
    /\ Enter([op |-> "read", count |-> n, lba |-> l], "rd_begin")
    /\ lba' = l /\ count' = n
    /\ UNCHANGED <<stk, dev, xport, other, inits, regs, err, buffer, icmd, token,
                   rbdst, resp, timers>>

\* no card: return IOERR_OPENFAIL; byte addressed cards: lba <<= 9
ata_read_begin ==
    /\ pc = "rd_begin"
    /\ IF ci.type = sdCardType_None
       THEN Finish(IOERR_OPENFAIL)
       ELSE /\ lba' = (IF ci.type # sdCardType_SDHC THEN Shl32(lba, 9) ELSE lba)
            /\ pc' = "rd_cmd"
            /\ UNCHANGED <<stk, retval, regs, err, count, buffer, icmd, token, rbdst,
                           resp, timers>>
    /\ UNCHANGED <<dev, xport, other, idbuf, inits, call, obs>>

\* count == 1: CMD17; otherwise CMD18
ata_read_cmd ==
    /\ pc = "rd_cmd"
    /\ IF count = 1
       THEN SendCmd(CMD17, lba, "rd_single_r")
       ELSE SendCmd(CMD18, lba, "rd_multi_r")
    /\ UNCHANGED <<dev, xport, pend, res, rv, locals, timers, env, obs>>

\* the command accepted: sd_read_block(spi, buffer, 512); else err = BadResponse
ata_read_cmd_r ==
    /\ pc \in {"rd_single_r", "rd_multi_r"}
    /\ IF res = 0
       THEN /\ rbdst' = "data"
            /\ Call("rb_set", IF pc = "rd_single_r" THEN "rd_single_rd" ELSE "rd_loop_r")
            /\ UNCHANGED err
       ELSE /\ err' = sdError_BadResponse
            /\ pc' = "rd_fin" /\ UNCHANGED <<stk, rbdst>>
    /\ UNCHANGED <<dev, xport, regs, count, lba, buffer, icmd, token, resp, timers,
                   env, obs>>

\* single sector: err = sd_read_block(...)
ata_read_single_rd ==
    /\ pc = "rd_single_rd" /\ pc' = "rd_fin"
    /\ err' = rv
    /\ done' = (IF rv = 0 THEN done + 1 ELSE done)
    /\ UNCHANGED <<stk, dev, xport, regs, count, lba, buffer, icmd, token, rbdst, resp,
                   timers, env, hw, sent, stops, expiredSeen, readyLate, lateCmds,
                   lastFrame, faults, probe>>

\* do { err = sd_read_block(); if (err < 0) break; buffer += 512; } while (--count)
ata_read_loop_r ==
    /\ pc = "rd_loop_r"
    /\ err' = rv
    /\ IF rv < 0
       THEN pc' = "rd_stop" /\ UNCHANGED <<stk, buffer, count, done>>
       ELSE /\ done < MaxSectors
            /\ buffer' = buffer + SD_SECTOR_SIZE
            /\ count' = Dec32(count)
            /\ done' = done + 1
            /\ IF count' # 0
               THEN Call("rb_set", "rd_loop_r")
               ELSE pc' = "rd_stop" /\ UNCHANGED stk
    /\ UNCHANGED <<dev, xport, regs, lba, icmd, token, rbdst, resp, timers, env, hw,
                   sent, stops, expiredSeen, readyLate, lateCmds, lastFrame, faults,
                   probe>>

\* fault variant of ata_read_stop: CMD12 is sent whatever err is
ata_read_stop_always ==
    /\ pc = "rd_stop"
    /\ SendCmd(CMD12, 0, "rd_stop_r")
    /\ UNCHANGED <<dev, xport, pend, res, rv, locals, timers, env, obs>>

\* if (err == 0) err = sd_send_cmd(spi, CMD12, 0)
ata_read_stop ==
    /\ pc = "rd_stop"
    /\ IF err = 0
       THEN SendCmd(CMD12, 0, "rd_stop_r")
       ELSE pc' = "rd_fin" /\ UNCHANGED <<stk, cmd, arg>>
    /\ UNCHANGED <<dev, xport, pend, res, rv, locals, timers, env, obs>>

\* fault variant of ata_read_stop_r: the result of CMD12 is dropped
ata_read_stop_r_ignored ==
    /\ pc = "rd_stop_r" /\ pc' = "rd_fin"
    /\ UNCHANGED <<stk, dev, xport, regs, locals, timers, env, obs>>

\* err = sd_send_cmd(spi, CMD12, 0)
ata_read_stop_r ==
    /\ pc = "rd_stop_r" /\ pc' = "rd_fin"
    /\ err' = res
    /\ UNCHANGED <<stk, dev, xport, regs, count, lba, buffer, icmd, token, rbdst, resp,
                   timers, env, obs>>

\* sd_deselect(spi)
ata_read_fin ==
    /\ pc = "rd_fin" /\ Call("ds_cs", "rd_ret")
    /\ UNCHANGED <<dev, xport, regs, locals, timers, env, obs>>

\* return err != sdError_OK ? IOERR_ABORTED : 0
ata_read_ret ==
    /\ pc = "rd_ret"
    /\ Finish(IF err # sdError_OK THEN IOERR_ABORTED ELSE 0)
    /\ UNCHANGED <<dev, xport, other, idbuf, inits, call, obs>>

\* ------------------------------------------------------------- ata_write
ata_write_call(l, n) ==
    /\ Enter([op |-> "write", count |-> n, lba |-> l], "wt_begin")
    /\ lba' = l /\ count' = n
    /\ UNCHANGED <<stk, dev, xport, other, inits, regs, err, buffer, icmd, token,
                   rbdst, resp, timers>>

\* fault variant of ata_write_begin: lba is left as it is for every card type
ata_write_begin_no_shift ==
    /\ pc = "wt_begin"
    /\ IF ci.type = sdCardType_None
       THEN Finish(IOERR_OPENFAIL)
       ELSE /\ pc' = "wt_cmd"
            /\ UNCHANGED <<stk, retval, regs, locals, timers>>
    /\ UNCHANGED <<dev, xport, other, idbuf, inits, call, obs>>

\* no card: return IOERR_OPENFAIL; byte addressed cards: lba <<= 9
ata_write_begin ==
    /\ pc = "wt_begin"
    /\ IF ci.type = sdCardType_None
       THEN Finish(IOERR_OPENFAIL)
       ELSE /\ lba' = (IF ci.type # sdCardType_SDHC THEN Shl32(lba, 9) ELSE lba)
            /\ pc' = "wt_cmd"
            /\ UNCHANGED <<stk, retval, regs, err, count, buffer, icmd, token, rbdst,
                           resp, timers>>
    /\ UNCHANGED <<dev, xport, other, idbuf, inits, call, obs>>

\* count == 1: CMD24; otherwise ACMD23 (SD cards only) before CMD25
ata_write_cmd ==
    /\ pc = "wt_cmd"
    /\ IF count = 1
       THEN SendCmd(CMD24, lba, "wt_single_r")
       ELSE IF ci.type \in {sdCardType_SD1_x, sdCardType_SD2_0, sdCardType_SDHC}
       THEN SendCmd(ACMD23, count, "wt_multi")
       ELSE pc' = "wt_multi" /\ UNCHANGED <<stk, cmd, arg>>
    /\ UNCHANGED <<dev, xport, pend, res, rv, locals, timers, env, obs>>

\* sd_send_cmd(spi, CMD25, lba)
ata_write_multi ==
    /\ pc = "wt_multi" /\ SendCmd(CMD25, lba, "wt_multi_r")
    /\ UNCHANGED <<dev, xport, pend, res, rv, locals, timers, env, obs>>

\* the command accepted: sd_write_block(spi, buffer, token); else err = BadResponse
ata_write_cmd_r ==
    /\ pc \in {"wt_single_r", "wt_multi_r"}
    /\ IF res = 0
       THEN /\ token' = (IF pc = "wt_single_r" THEN 254 ELSE 252)
            /\ Call("wb_entry", IF pc = "wt_single_r" THEN "wt_single_wr" ELSE "wt_loop_r")
            /\ UNCHANGED err
       ELSE /\ err' = sdError_BadResponse
            /\ pc' = "wt_fin" /\ UNCHANGED <<stk, token>>
    /\ UNCHANGED <<dev, xport, regs, count, lba, buffer, icmd, rbdst, resp, timers,
                   env, obs>>

\* single sector: err = sd_write_block(...)
ata_write_single_wr ==
    /\ pc = "wt_single_wr" /\ pc' = "wt_fin"
    /\ err' = rv
    /\ done' = (IF rv = 0 THEN done + 1 ELSE done)
    /\ UNCHANGED <<stk, dev, xport, regs, count, lba, buffer, icmd, token, rbdst, resp,
                   timers, env, hw, sent, stops, expiredSeen, readyLate, lateCmds,
                   lastFrame, faults, probe>>

\* do { err = sd_write_block(0xfc); if (err < 0) break; buffer += 512; } while (--count)
ata_write_loop_r ==
    /\ pc = "wt_loop_r"
    /\ err' = rv
    /\ IF rv < 0
       THEN pc' = "wt_stop" /\ UNCHANGED <<stk, buffer, count, done>>
       ELSE /\ done < MaxSectors
            /\ buffer' = buffer + SD_SECTOR_SIZE
            /\ count' = Dec32(count)
            /\ done' = done + 1
            /\ IF count' # 0
               THEN Call("wb_entry", "wt_loop_r")
               ELSE pc' = "wt_stop" /\ UNCHANGED stk
    /\ UNCHANGED <<dev, xport, regs, lba, icmd, token, rbdst, resp, timers, env, hw,
                   sent, stops, expiredSeen, readyLate, lateCmds, lastFrame, faults,
                   probe>>

\* if (err == 0) err = sd_write_block(spi, 0, 0xfd)
ata_write_stop ==
    /\ pc = "wt_stop"
    /\ IF err = 0
       THEN token' = 253 /\ Call("wb_entry", "wt_stop_r")
       ELSE pc' = "wt_fin" /\ UNCHANGED <<stk, token>>
    /\ UNCHANGED <<dev, xport, regs, err, count, lba, buffer, icmd, rbdst, resp, timers,
                   env, obs>>

ata_write_stop_r ==
    /\ pc = "wt_stop_r" /\ pc' = "wt_fin"
    /\ err' = rv
    /\ UNCHANGED <<stk, dev, xport, regs, count, lba, buffer, icmd, token, rbdst, resp,
                   timers, env, obs>>

\* sd_deselect(spi)
ata_write_fin ==
    /\ pc = "wt_fin" /\ Call("ds_cs", "wt_ret")
    /\ UNCHANGED <<dev, xport, regs, locals, timers, env, obs>>

\* return err != sdError_OK ? IOERR_ABORTED : 0
ata_write_ret ==
    /\ pc = "wt_ret"
    /\ Finish(IF err # sdError_OK THEN IOERR_ABORTED ELSE 0)
    /\ UNCHANGED <<dev, xport, other, idbuf, inits, call, obs>>

\* ------------------------------------------------------------- the second bus user
\* spi_obtain by the other device's driver
other_obtain ==
    /\ other = "idle" /\ sspi /\ sem.owner = "none"
    /\ sem' = ObtainSemaphore(sem, "other")
    /\ other' = "held"
    /\ UNCHANGED <<ctl, dev, spi, sspi, cs, regs, locals, timers, idbuf, inits, call,
                   retval, obs>>

\* spi_select on channel 2
other_select ==
    /\ other = "held"
    /\ cs' = SPI_CHANNEL_2
    /\ other' = "selected"
    /\ UNCHANGED <<ctl, dev, spi, sspi, sem, regs, locals, timers, idbuf, inits, call,
                   retval, obs>>

\* spi_deselect
other_deselect ==
    /\ other = "selected"
    /\ cs' = 0
    /\ other' = "held"
    /\ UNCHANGED <<ctl, dev, spi, sspi, sem, regs, locals, timers, idbuf, inits, call,
                   retval, obs>>

\* spi_release
other_release ==
    /\ other = "held"
    /\ sem' = ReleaseSemaphore(sem)
    /\ other' = "idle"
    /\ UNCHANGED <<ctl, dev, spi, sspi, cs, regs, locals, timers, idbuf, inits, call,
                   retval, obs>>

\* ------------------------------------------------------------- specification
\* steps of sd_send_cmd and the functions below it (the CMD12 filler byte is
\* read only inside ata_read and is listed with it)
CommandStep ==
    \/ sd_send_cmd_entry \/ sd_send_cmd_prep \/ sd_send_cmd_select
    \/ sd_send_cmd_selchk \/ sd_send_cmd_frame
    \/ \E r \in R1Bytes : sd_send_cmd_poll(r)
    \/ sd_send_cmd_ret
    \/ sd_deselect_cs \/ sd_deselect_clk \/ sd_deselect_rel
    \/ sd_select_obtain \/ sd_select_cs \/ sd_select_chk
    \/ sd_wait_ready_set
    \/ \E d \in 0..1, in \in BusBytes : sd_wait_ready_poll(d, in)

ReadBlockStep ==
    \/ sd_read_block_set
    \/ \E d \in 0..1, tok \in BusBytes : sd_read_block_token(d, tok)
    \/ sd_read_block_data

WriteBlockStep ==
    \/ sd_write_block_entry \/ sd_write_block_chk \/ sd_write_block_token
    \/ \E r \in DataResponses : sd_write_block_data(r)

InitStep ==
    \/ ata_init_unit_call \/ ata_init_unit_begin
    \/ \E ok \in BOOLEAN : ata_init_unit_spi(ok)
    \/ ata_init_unit_obtain \/ ata_init_unit_desel \/ ata_init_unit_clocks
    \/ \E d \in 0..1 : timer_wait_poll(d)
    \/ ata_init_unit_cmd0 \/ ata_init_unit_cmd0_r
    \/ \E ocr \in R7Words : ata_init_unit_cmd8_r(ocr)
    \/ ata_init_unit_v2_poll \/ ata_init_unit_v2_poll_r \/ ata_init_unit_v2_ocr
    \/ \E ocr \in R7Words : ata_init_unit_v2_ocr_r(ocr)
    \/ ata_init_unit_v1_probe_r \/ ata_init_unit_v1_poll \/ ata_init_unit_v1_poll_r
    \/ ata_init_unit_v1_blk \/ ata_init_unit_v1_blk_r
    \/ ata_init_unit_regs \/ ata_init_unit_cid_r \/ ata_init_unit_cid_rd
    \/ ata_init_unit_cid_parse \/ ata_init_unit_csd_r \/ ata_init_unit_csd_rd
    \/ ata_init_unit_csd_parse \/ ata_init_unit_fin \/ ata_init_unit_ret

TransferStep ==
    \/ ata_identify_call \/ ata_identify
    \/ \E l \in Lbas, n \in Counts : ata_read_call(l, n)
    \/ ata_read_begin \/ ata_read_cmd \/ ata_read_cmd_r \/ ata_read_single_rd
    \/ ata_read_loop_r \/ ata_read_stop \/ sd_send_cmd_skip \/ ata_read_stop_r
    \/ ata_read_fin
    \/ ata_read_ret
    \/ \E l \in Lbas, n \in Counts : ata_write_call(l, n)
    \/ ata_write_begin \/ ata_write_cmd \/ ata_write_multi \/ ata_write_cmd_r
    \/ ata_write_single_wr \/ ata_write_loop_r \/ ata_write_stop \/ ata_write_stop_r
    \/ ata_write_fin \/ ata_write_ret

OtherStep == other_obtain \/ other_select \/ other_deselect \/ other_release

Next ==
    CommandStep \/ ReadBlockStep \/ WriteBlockStep \/ InitStep \/ TransferStep
    \/ OtherStep

Spec == Init /\ [][Next]_vars

\* ------------------------------------------------------------- bring-up under fairness
\* The bring-up alone, with a scheduler that keeps running the driver task, a
\* TOD register that keeps counting while the driver polls, and a second bus
\* user that gives the bus back.
BringUpNext == CommandStep \/ ReadBlockStep \/ InitStep \/ OtherStep

\* a step of the driver task inside a call
DriverStep == pc # "idle" /\ (CommandStep \/ ReadBlockStep \/ InitStep)

\* a pass of a timed loop during which the TOD register advances
TickStep ==
    \/ \E in \in BusBytes : sd_wait_ready_poll(1, in)
    \/ \E tok \in BusBytes : sd_read_block_token(1, tok)
    \/ timer_wait_poll(1)

FairSpec ==
    /\ Init /\ [][BringUpNext]_vars
    /\ SF_vars(DriverStep)
    /\ SF_vars(TickStep)
    /\ WF_vars(other_deselect)
    /\ SF_vars(other_release)

\* ------------------------------------------------------------- geometry alone
\* heads * sectors-per-track * cylinders around every threshold of the
\* acceptance tests, and the ends of the range
GeomCyls == {1023, 1024, 16383, 32767, 65535, 65536}
GeomHeads == {4, 5, 16}
MaxTotal == 2 ^ 30 + (2 ^ 30 - 1)
GeomTotals ==
    {h * t * c - d : h \in GeomHeads, t \in {63, 127, 255}, c \in GeomCyls, d \in 0..1}
    \cup {0, 1, 2 ^ 20, 2 ^ 20 + 1, MaxTotal}

GeomInit ==
    /\ pc = "geom" /\ stk = <<>>
    /\ unit = ZeroUnit(0)
    /\ ci \in {[type |-> sdCardType_SDHC, total_sectors |-> t,
                 block_size |-> sdBlockSize_512, csd |-> ZeroCsd, cid |-> ZeroCid] :
                t \in GeomTotals}
    /\ spi = [bus_taken |-> 0, speed |-> SPI_SPEED_SLOW, channel |-> 0]
    /\ sspi = FALSE
    /\ sem = [owner |-> "none", nest |-> 0]
    /\ cs = 0
    /\ other = "idle"
    /\ cmd = 0 /\ arg = 0 /\ pend = NoPend /\ res = 0 /\ rv = 0
    /\ err = 0 /\ count = 0 /\ lba = 0 /\ buffer = 0
    /\ icmd = 0 /\ token = 0 /\ rbdst = "none" /\ resp = <<>>
    /\ timeout = NoTimer /\ timeout_rw = NoTimer /\ start = NoTimer
    /\ idbuf = CallerBuffer
    /\ inits = 0
    /\ call = [op |-> "geometry", count |-> 0, lba |-> 0] /\ retval = NoValue
    /\ hw = {} /\ sent = {} /\ stops = 0 /\ done = 0
    /\ expiredSeen = FALSE /\ readyLate = FALSE /\ lateCmds = {} /\ lastFrame = <<>>
    /\ faults = {} /\ probe = "none"

\* sd_compute_chs_geometry(unit)
sd_compute_chs_geometry_call ==
    /\ pc = "geom" /\ pc' = "geom_done"
    /\ unit' = sd_compute_chs_geometry(unit, ci.total_sectors)
    /\ UNCHANGED <<stk, ci, xport, regs, locals, timers, env, obs>>

GeomSpec == GeomInit /\ [][sd_compute_chs_geometry_call]_vars

\* ------------------------------------------------------------- sd_parse_csd alone
\* the word with upper half hi and lower half lo
MkWord(hi, lo) ==
    IF hi >= 2 ^ 15 THEN (((hi - 2 ^ 15) * (2 ^ 16) + lo) - MaxInt) - 1
    ELSE hi * (2 ^ 16) + lo

\* fields of the registers the decoder is given: the block length exponents,
\* bits 9:0 of the second word, the halves of the third word
CsdLens == {3, 9, 10}
CsdSizeHigh == {0, 1, 63, 1023}
CsdWord2High == {0, 3, 2 ^ 14, 2 ^ 15 + 1, 2 ^ 16 - 1}
CsdWord2Low == {0, 2 ^ 15}

CsdInputs ==
    {MkCsd(rbl, wbl, w1, MkWord(hi, lo)) :
        rbl \in CsdLens, wbl \in CsdLens, w1 \in CsdSizeHigh,
        hi \in CsdWord2High, lo \in CsdWord2Low}

CsdInit ==
    /\ pc = "csd" /\ stk = <<>>
    /\ unit = ZeroUnit(0)
    /\ ci \in {[type |-> t, total_sectors |-> 0, block_size |-> sdBlockSize_512,
                 csd |-> ZeroCsd, cid |-> ZeroCid] : t \in CardTypes}
    /\ spi = [bus_taken |-> 0, speed |-> SPI_SPEED_SLOW, channel |-> 0]
    /\ sspi = FALSE
    /\ sem = [owner |-> "none", nest |-> 0]
    /\ cs = 0
    /\ other = "idle"
    /\ cmd = 0 /\ arg = 0 /\ pend = NoPend /\ res = 0 /\ rv = 0
    /\ err = 0 /\ count = 0 /\ lba = 0 /\ buffer = 0
    /\ icmd = 0 /\ token = 0 /\ rbdst = "csd" /\ resp \in CsdInputs
    /\ timeout = NoTimer /\ timeout_rw = NoTimer /\ start = NoTimer
    /\ idbuf = CallerBuffer
    /\ inits = 0
    /\ call = [op |-> "parse_csd", count |-> 0, lba |-> 0] /\ retval = NoValue
    /\ hw = {} /\ sent = {} /\ stops = 0 /\ done = 0
    /\ expiredSeen = FALSE /\ readyLate = FALSE /\ lateCmds = {} /\ lastFrame = <<>>
    /\ faults = {} /\ probe = "none"

\* err = sd_parse_csd(ci, resp)
sd_parse_csd_call ==
    /\ pc = "csd" /\ pc' = "csd_done"
    /\ LET r == sd_parse_csd(ci, resp)
       IN  ci' = r.ci /\ err' = r.err
    /\ UNCHANGED <<stk, unit, xport, regs, count, lba, buffer, icmd, token, rbdst, resp,
                   timers, env, obs>>

CsdSpec == CsdInit /\ [][sd_parse_csd_call]_vars

\* the decoder alone and as the bring-up uses it
BringUpCsdSpec == (Init \/ CsdInit) /\ [][BringUpNext \/ sd_parse_csd_call]_vars

\* ------------------------------------------------------------- ata_init_unit from CMD9 on
\* The last bring-up of a run at the point where sd_read_block has delivered the
\* CSD register, for every card type that gets there and every register of
\* CsdInputs.
CsdReadSent(t) ==
    IF t = sdCardType_MMC THEN {CMD0, CMD8, CMD55, CMD1, CMD16, CMD10, CMD9}
    ELSE IF t = sdCardType_SD1_x
    THEN {CMD0, CMD8, CMD55, BitAnd(ACMD41, 127), CMD16, CMD10, CMD9}
    ELSE {CMD0, CMD8, CMD55, BitAnd(ACMD41, 127), CMD58, CMD10, CMD9}

CsdReadInit ==
    /\ pc = "init_csd_parse" /\ stk = <<>>
    /\ unit = ZeroUnit(0)
    /\ \E t \in CardTypes \ {sdCardType_None}, r \in CidRegisters :
           /\ ci = sd_parse_cid([type |-> t, total_sectors |-> 0,
                                  block_size |-> sdBlockSize_512, csd |-> ZeroCsd,
                                  cid |-> ZeroCid], r).ci
           /\ sent = CsdReadSent(t)
           /\ icmd = (IF t = sdCardType_MMC THEN CMD1
                      ELSE IF t = sdCardType_SD1_x THEN ACMD41 ELSE 0)
           /\ probe = (IF t \in {sdCardType_SD2_0, sdCardType_SDHC}
                       THEN "echo" ELSE "noecho")
    /\ spi = [bus_taken |-> 1, speed |-> SPI_SPEED_SLOW, channel |-> SPI_CHANNEL_1]
    /\ sspi = TRUE
    /\ sem = [owner |-> "driver", nest |-> 1]
    /\ cs = SPI_CHANNEL_1
    /\ other = "idle"
    /\ cmd = 0 /\ arg = 0 /\ pend = NoPend /\ res = 0 /\ rv = 0
    /\ err = 0 /\ count = 0 /\ lba = 0 /\ buffer = 0
    /\ token = 254 /\ rbdst = "csd" /\ resp \in CsdInputs
    /\ timeout = NoTimer /\ timeout_rw = NoTimer /\ start = NoTimer
    /\ idbuf = CallerBuffer
    /\ inits = MaxInits
    /\ call = [op |-> "init", count |-> 0, lba |-> 0] /\ retval = NoValue
    /\ hw = {"open", "obtain", "cs", "xfer", "wait", "release"}
    /\ stops = 0 /\ done = 0
    /\ expiredSeen = FALSE /\ readyLate = FALSE /\ lateCmds = {}
    /\ lastFrame = CommandFrame(CMD9, 0)
    /\ faults = {}

\* the bring-up from its start and from the CSD read on
InitCsdSpec == (Init \/ CsdReadInit) /\ [][BringUpNext]_vars

\* ------------------------------------------------------------- spi.c alone
\* A session that calls spi_obtain and spi_release in any order, next to the
\* second bus user; the spi_t is the one spi_initialize leaves.
SpiInit ==
    /\ pc = "spi" /\ stk = <<>>
    /\ unit = ZeroUnit(0)
    /\ ci = [type |-> sdCardType_None, total_sectors |-> 0, block_size |-> 0,
             csd |-> ZeroCsd, cid |-> ZeroCid]
    /\ spi = [bus_taken |-> 0, speed |-> SPI_SPEED_SLOW, channel |-> SPI_CHANNEL_1]
    /\ sspi = TRUE
    /\ sem = [owner |-> "none", nest |-> 0]
    /\ cs = 0
    /\ other = "idle"
    /\ cmd = 0 /\ arg = 0 /\ pend = NoPend /\ res = 0 /\ rv = 0
    /\ err = 0 /\ count = 0 /\ lba = 0 /\ buffer = 0
    /\ icmd = 0 /\ token = 0 /\ rbdst = "none" /\ resp = <<>>
    /\ timeout = NoTimer /\ timeout_rw = NoTimer /\ start = NoTimer
    /\ idbuf = CallerBuffer
    /\ inits = 0
    /\ call = [op |-> "spi", count |-> 0, lba |-> 0] /\ retval = NoValue
    /\ hw = {} /\ sent = {} /\ stops = 0 /\ done = 0
    /\ expiredSeen = FALSE /\ readyLate = FALSE /\ lateCmds = {} /\ lastFrame = <<>>
    /\ faults = {} /\ probe = "none"

\* spi_obtain(spi); a call made with the bus already held is noted as "reobtain"
spi_obtain_call ==
    /\ pc = "spi"
    /\ spi_obtain
    /\ Touch({IF spi.bus_taken # 0 THEN "reobtain" ELSE "obtain"})
    /\ UNCHANGED <<ctl, dev, sspi, cs, regs, locals, timers, env, obsx>>

\* spi_release(spi); a call made with the bus not held is noted as "rerelease"
spi_release_call ==
    /\ pc = "spi"
    /\ spi_release
    /\ Touch({IF spi.bus_taken # 0 THEN "release" ELSE "rerelease"})
    /\ UNCHANGED <<ctl, dev, sspi, cs, regs, locals, timers, env, obsx>>

\* spi.c alone and as the bring-up uses it
SpiSpec ==
    (Init \/ SpiInit) /\ [][BringUpNext \/ spi_obtain_call \/ spi_release_call]_vars

\* ------------------------------------------------------------- properties
\* a driver entry point has returned to its caller
Returned(ops) == pc = "idle" /\ call.op \in ops

\* C1: with a driver task that keeps running, a TOD register that keeps
\* counting and a bus that is given back, every ata_init_unit call that has
\* been entered returns, whatever the card answers.
C1_InitTerminates == (call.op = "init" /\ pc # "idle") ~> (pc = "idle")

\* the unit is absent as far as its own fields say
UnitAbsent == ~unit.present /\ ~unit.mediumPresent

\* commands of the bring-up that follow the operating-condition poll
AfterPoll == {CMD58, CMD16, CMD10, CMD9}

\* C2: when the operating-condition poll was left with its deadline passed,
\* ata_init_unit returns false with the unit absent and the card type None, and
\* sent none of the commands that follow the poll.
C2_TimeoutLeavesAbsent ==
    (Returned({"init"}) /\ readyLate) =>
        /\ retval = false
        /\ UnitAbsent
        /\ ci.type = sdCardType_None
        /\ sent \cap AfterPoll = {}

\* C3: whenever ata_init_unit returns false the unit is absent, its geometry
\* and block size are zero and the card type is None.
C3_FailureLeavesZeroed ==
    (Returned({"init"}) /\ retval = false) =>
        /\ UnitAbsent
        /\ unit.cylinders = 0 /\ unit.heads = 0 /\ unit.sectorsPerTrack = 0
        /\ unit.blockSize = 0
        /\ ci.type = sdCardType_None

\* C4: ata_read and ata_write on a unit that is not marked present return the
\* no-card error without any transport operation.
C4_AbsentTransferRefused ==
    (Returned({"read", "write"}) /\ ~unit.present) =>
        retval = IOERR_OPENFAIL /\ hw = {}

\* C5: ata_identify on a unit that is not marked present returns false and
\* leaves the destination buffer as the caller passed it.
C5_AbsentIdentifyRefused ==
    (Returned({"identify"}) /\ ~unit.present) =>
        retval = false /\ idbuf = CallerBuffer

\* a read or write call that found a card has returned
TransferReturned == Returned({"read", "write"}) /\ retval # IOERR_OPENFAIL

\* ... and the unit was marked present by the bring-up
PresentTransferReturned == TransferReturned /\ unit.present

\* C6 as stated: count = 1 sends no stop sequence; count > 1 sends exactly one
\* when every sector transfer succeeded and none otherwise.
C6_StopRuleAsStated ==
    PresentTransferReturned =>
        /\ call.count = 1 => stops = 0
        /\ (call.count > 1 /\ done = call.count) => stops = 1
        /\ (call.count > 1 /\ done < call.count) => stops = 0

\* C6 amended: as stated, except that ata_write sends no stop token when the
\* card does not become ready before it; the call then fails with a timeout.
C6_StopRule ==
    /\ TransferReturned =>
        /\ call.count = 1 => stops = 0
        /\ (call.count > 1 /\ done = call.count) =>
               \/ stops = 1
               \/ call.op = "write" /\ stops = 0 /\ retval = IOERR_ABORTED
        /\ (call.count > 1 /\ done < call.count) => stops = 0
    /\ pc = "wt_stop_r" =>
        \/ rv = 0 /\ stops = 1
        \/ rv = sdError_Timeout /\ stops = 0
    /\ pc = "rd_stop_r" => stops = 1

C6_Witness ==
    /\ PresentTransferReturned /\ call.op = "write" /\ call.count = 2 /\ done = 2
    /\ stops = 1 /\ retval = 0

\* C7: ata_init_unit on a unit whose index is not 0 touches no hardware and
\* returns false.
C7_OtherUnitRejected ==
    (call.op = "init" /\ unit.unitNum # 0) =>
        /\ hw = {}
        /\ pc \in {"init_begin", "idle"}
        /\ pc = "idle" => retval = false

C7_Witness == Returned({"init"}) /\ unit.unitNum = 1 /\ retval = false

\* the acceptance rule of the geometry search, written out for one result
TierRule(total, cyl, heads) ==
    IF total <= 1048576
    THEN cyl <= 1023
    ELSE cyl < 16383 \/ (cyl < 32767 /\ heads >= 5) \/ cyl <= 65535

GeometryInRange ==
    /\ unit.heads \in 4..16
    /\ unit.sectorsPerTrack \in {63, 127, 255}
    /\ unit.cylinders = unit.logicalSectors \div (unit.heads * unit.sectorsPerTrack)
    /\ TierRule(unit.logicalSectors, unit.cylinders, unit.heads)

GeometryLimit == 16 * 255 * 65536

C9_TransferEndsReleased ==
    TransferReturned =>
        cs # SPI_CHANNEL_1 /\ spi.bus_taken = 0 /\ sem.owner # "driver"

C9_Witness ==
    /\ PresentTransferReturned /\ call.op = "read" /\ retval = IOERR_ABORTED
    /\ done = 1 /\ call.count = 2 /\ {"obtain", "cs", "release"} \subseteq hw

\* C10: the card's chip select is asserted only while the driver holds the
\* bus and its semaphore (so the bus is not given back with it asserted).
C10_SelectOnlyWhileHeld ==
    cs = SPI_CHANNEL_1 => spi.bus_taken = 1 /\ sem.owner = "driver"

C10_Witness ==
    /\ cs = SPI_CHANNEL_1 /\ call.op = "write" /\ pc = "wb_data"
    /\ spi.bus_taken = 1

\* C11 as stated: a read or write of a present card returns 0 exactly when no
\* step of the call failed, the pre-announced sector count (ACMD23) included,
\* and IOERR_ABORTED otherwise
C11_ReturnCodeAsStated ==
    PresentTransferReturned =>
        /\ retval \in {0, IOERR_ABORTED}
        /\ retval = 0 <=> faults = {}

\* C11: a read or write of a present card returns 0 or IOERR_ABORTED, and 0
\* exactly when the transfer command was accepted, every sector and the stop
\* sequence went through and no ready wait timed out; the result of the
\* pre-announced sector count (ACMD23) of a multiple block write is not counted
C11_ReturnCode ==
    PresentTransferReturned =>
        /\ retval \in {0, IOERR_ABORTED}
        /\ retval = 0 <=> faults \subseteq {"announce"}

\* a multiple block write has returned 0 although its ACMD23 failed
C11_Witness ==
    /\ PresentTransferReturned /\ call.op = "write" /\ call.count > 1
    /\ retval = 0 /\ faults = {"announce"}

\* the argument bytes a read / write command must carry for the LBA of the call
C12_Expected ==
    LET a == IF ci.type = sdCardType_SDHC
             THEN call.lba
             ELSE (call.lba % (2 ^ 23)) * SD_SECTOR_SIZE
    IN  <<a \div (2 ^ 24), (a \div (2 ^ 16)) % 256, (a \div (2 ^ 8)) % 256, a % 256>>

\* a CMD17 / CMD18 / CMD24 / CMD25 frame is the last one ata_read / ata_write wrote
C12_TransferFrame ==
    /\ call.op \in {"read", "write"} /\ lastFrame # <<>>
    /\ lastFrame[1] \in {64 + CMD17, 64 + CMD18, 64 + CMD24, 64 + CMD25}

\* C12: the argument of the CMD17 / CMD18 / CMD24 / CMD25 frame written by
\* ata_read / ata_write is the LBA of the call for an SDHC card and
\* (LBA << 9) mod 2^32 for every other card type
C12_CommandArgument ==
    C12_TransferFrame => SubSeq(lastFrame, 2, 5) = C12_Expected

\* a byte addressed card is sent CMD25 for an LBA whose byte address wraps
C12_Witness ==
    /\ C12_TransferFrame /\ lastFrame[1] = 64 + CMD25
    /\ ci.type = sdCardType_SD2_0 /\ call.lba = 2 ^ 23 + 1
    /\ SubSeq(lastFrame, 2, 5) = <<0, 0, 2, 0>>

\* the k-th of the 8 uppercase hexadecimal digits of sn, most significant first
C13_HexDigit(sn, k) ==
    LET n == (sn \div (16 ^ (8 - k))) % 16
    IN  IF n < 10 THEN 48 + n ELSE 65 + (n - 10)

\* C13: after ata_identify on a card that is there, the 20 bytes of the serial
\* field (word ata_identify_serial) are spaces, except the last 8, which are the
\* uppercase hexadecimal digits of the CID serial number, most significant first
C13_SerialField ==
    (Returned({"identify"}) /\ unit.present /\ retval = true) =>
        /\ \A i \in 0..11 : idbuf[2 * ata_identify_serial + i] = 32
        /\ \A k \in 1..8 :
               idbuf[2 * ata_identify_serial + 11 + k] = C13_HexDigit(ci.cid.product_sn, k)

\* the read and the write block length exponent of the register in resp:
\* bits 19:16 of its second word, bits 25:22 of its fourth word
C14_ReadLen == (resp[2] \div (2 ^ 16)) % 16
C14_WriteLen == (resp[4] \div (2 ^ 22)) % 16

\* C14: sd_parse_csd returns sdError_Unsupported for a register whose read and
\* write block length exponents differ, whatever the card type, and a bring-up
\* that has decoded such a register returns false
C14_LengthMismatch ==
    /\ (pc = "csd_done" /\ C14_ReadLen # C14_WriteLen) => err = sdError_Unsupported
    /\ (Returned({"init"}) /\ ci.csd.read_block_len # ci.csd.write_block_len) =>
           retval = false

\* a bring-up returns after an SDHC card sent a register with exponents 9 and 10
C14_Witness ==
    /\ Returned({"init"}) /\ retval = false /\ ci.type = sdCardType_SDHC
    /\ ci.csd.read_block_len = 9 /\ ci.csd.write_block_len = 10

\* the device size D of the register in resp for a standard capacity card: bits
\* 9:0 of its second word above bits 31:30 of its third word
C15_DeviceSize ==
    (resp[2] % (2 ^ 10)) * 4
        + (IF resp[3] < 0 THEN 2 ELSE 0) + (Low31(resp[3]) \div (2 ^ 30))

\* the size multiplier M of the register in resp: bits 17:15 of its third word
C15_Multiplier == (Low31(resp[3]) \div (2 ^ 15)) % 8

\* C15: for an SD v1.x or SD v2.0 card sd_parse_csd sets total_sectors to
\* (D + 1) << (M + 2)
C15_SdscSectors ==
    (pc = "csd_done" /\ ci.type \in {sdCardType_SD1_x, sdCardType_SD2_0}) =>
        ci.total_sectors = (C15_DeviceSize + 1) * (2 ^ (C15_Multiplier + 2))

\* the largest register: D = 4095, M = 7, 2^21 sectors
C15_Witness ==
    /\ pc = "csd_done" /\ ci.type = sdCardType_SD1_x
    /\ C15_DeviceSize = 4095 /\ C15_Multiplier = 7
    /\ ci.total_sectors = 2 ^ 21

\* the 22 bit device size C of the register in resp for an SDHC card: bits 5:0
\* of its second word above bits 31:16 of its third word
C16_DeviceSize ==
    (resp[2] % (2 ^ 6)) * (2 ^ 16)
        + (IF resp[3] < 0 THEN 2 ^ 15 ELSE 0) + (Low31(resp[3]) \div (2 ^ 16))

\* C16: for an SDHC card sd_parse_csd sets total_sectors to
\* (C + 1) << (19 - read_block_len), C the whole 22 bit device size
C16_SdhcSectors ==
    (pc = "csd_done" /\ ci.type = sdCardType_SDHC) =>
        ci.total_sectors = Shl32(C16_DeviceSize + 1, 19 - ci.csd.read_block_len)

\* ata_read / ata_write is inside sd_read_block or sd_write_block
C17_InBlock ==
    pc \in {"rb_set", "rb_tok", "rb_data", "wb_entry", "wb_chk", "wb_tok", "wb_data"}

\* C17: the sector loop of ata_read / ata_write moves one block per requested
\* sector, count = 0 included: never more blocks than requested, the buffer
\* 512 bytes further for each block of the loop, no block after one that failed,
\* and exactly count blocks when the call returns 0
C17_SectorLoop ==
    call.op \in {"read", "write"} =>
        /\ done <= call.count
        /\ pc \in {"rd_loop_r", "wt_loop_r"} => buffer = SD_SECTOR_SIZE * done
        /\ faults \cap {"data", "ready"} # {} => ~C17_InBlock
        /\ (pc = "idle" /\ retval = 0) => done = call.count

\* C18: a bring-up that returns false leaves the transport at the slow clock,
\* and every command frame of a bring-up is written at the slow clock
C18_FastOnlyWhenValidated ==
    /\ (Returned({"init"}) /\ retval = false /\ "open" \in hw) =>
           spi.speed = SPI_SPEED_SLOW
    /\ (call.op = "init" /\ pc = "sc_frame") => spi.speed = SPI_SPEED_SLOW

\* C19: once CMD0 of a bring-up has returned anything but 1, no other command
\* frame is written, the card type stays none, and the call returns false with
\* the card deselected and the bus released
C19_NoIdleNoCard ==
    (call.op = "init" /\ probe = "noidle") =>
        /\ sent \subseteq {CMD0}
        /\ ci.type = sdCardType_None
        /\ pc = "idle" => (retval = false /\ cs # SPI_CHANNEL_1 /\ spi.bus_taken = 0)

\* a bring-up has returned after CMD0 was answered with something other than 1
C19_Witness ==
    /\ Returned({"init"}) /\ probe = "noidle" /\ sent = {CMD0}
    /\ retval = false /\ ci.type = sdCardType_None /\ cs # SPI_CHANNEL_1

\* the bring-up is inside sd_send_cmd(spi, ACMD41, 0) of the pre-v2 branch
C20_Probing == pc # "idle" /\ stk # <<>> /\ stk[Len(stk)] = "init_v1_probe_r"

\* C20: after CMD0 answered 1 and the echo check of CMD8 failed (R1 not 1, or an
\* R7 word other than 0x1aa), the bring-up probes ACMD41 with argument 0 and
\* classifies the card as SD v1.x or MMC, which fixes the command it polls with
C20_PreV2Branch ==
    (call.op = "init" /\ probe = "noecho" /\ pc # "idle") =>
        \/ C20_Probing
        \/ pc = "init_v1_probe_r"
        \/ icmd = ACMD41 /\ ci.type \in {sdCardType_SD1_x, sdCardType_None}
        \/ icmd = CMD1 /\ ci.type \in {sdCardType_MMC, sdCardType_None}

\* the bring-up is past the pre-v2 poll and the CMD16 step that may follow it
C21_PastBlockLen == pc = "init_regs" /\ probe = "noecho" /\ icmd \in {ACMD41, CMD1}

\* C21: a bring-up writes a CMD16 frame only on the pre-v2 path, with argument
\* 512, and only when the operating-condition poll was left before its deadline;
\* on that path it does issue CMD16 after such a poll, and a CMD16 answered with
\* anything but 0 leaves the card type none
C21_BlockLen ==
    call.op = "init" =>
        /\ CMD16 \in sent => (probe = "noecho" /\ ~expiredSeen /\ ~readyLate)
        /\ (lastFrame # <<>> /\ lastFrame[1] = 64 + CMD16) =>
               SubSeq(lastFrame, 2, 5) = <<0, 0, 2, 0>>
        /\ (C21_PastBlockLen /\ ~expiredSeen /\ ~readyLate) =>
               (CMD16 \in sent \/ res = 255)
        /\ (C21_PastBlockLen /\ res > 0) => ci.type = sdCardType_None

\* the frame of CMD55 with argument 0
C22_AppCmdFrame == <<64 + CMD55, 0, 0, 0, 0, 1>>

\* the indexes of the application commands the driver issues, marker bit stripped
C22_AppIndexes == {BitAnd(ACMD41, 127), BitAnd(ACMD23, 127)}

\* the frame of an application command has just been written
C22_Witness ==
    /\ pc = "sc_poll" /\ cmd \in C22_AppIndexes
    /\ lastFrame # <<>> /\ lastFrame[1] = 64 + cmd

\* C22: sd_send_cmd of an application command runs CMD55 with argument 0 first;
\* when that returns more than 1 the call returns it and writes no further frame,
\* otherwise it goes on to the command with the marker bit stripped; the frame of
\* an application command is written only straight after a CMD55 frame answered
\* with 0 or 1, and its first byte is 0x40 | the stripped index
C22_AppCmd ==
    [][/\ (pc = "sc_ret" /\ pend # NoPend /\ pc' # pc) =>
              /\ cmd = CMD55 /\ arg = 0
              /\ IF res > 1
                 THEN /\ pc' = Head(stk) /\ res' = res
                      /\ lastFrame' = lastFrame /\ sent' = sent
                 ELSE /\ pc' = "sc_prep" /\ pend' = NoPend
                      /\ cmd' = BitAnd(pend.cmd, 127) /\ arg' = pend.arg
       /\ (pc = "sc_frame" /\ cmd \in C22_AppIndexes /\ pc' # pc) =>
              /\ lastFrame = C22_AppCmdFrame /\ res <= 1
              /\ lastFrame' = <<64 + cmd>> \o Tail(CommandFrame(cmd, arg))]_vars

\* sd_select timed out inside sd_send_cmd, which returns 0xFF
C23_Witness == pc = "sc_ret" /\ cmd # CMD12 /\ rv < 0 /\ res = 255

\* C23: for a command other than CMD12 sd_send_cmd runs sd_deselect, then
\* sd_select (obtain, select, wait-ready), and writes the frame only with the card
\* selected and found ready; when sd_select timed out it returns 0xFF and writes
\* no frame; for CMD12 it goes straight to the frame, written with the card still
\* selected, and reads one filler byte before the response is polled
C23_SelectCycle ==
    /\ [][/\ (pc = "sc_prep" /\ pc' # pc) =>
                 IF cmd # CMD12
                 THEN pc' = "ds_cs" /\ Head(stk') = "sc_select"
                 ELSE pc' = "sc_frame" /\ cs' = cs /\ spi' = spi
          /\ (pc = "sc_select" /\ pc' # pc) =>
                 pc' = "sel_obtain" /\ Head(stk') = "sc_selchk"
          /\ (pc = "sc_selchk" /\ pc' # pc) =>
                 IF rv < 0
                 THEN /\ pc' = "sc_ret" /\ res' = 255
                      /\ lastFrame' = lastFrame /\ sent' = sent
                 ELSE pc' = "sc_frame"
          /\ (pc = "sc_frame" /\ pc' # pc) =>
                 /\ cs = spi.channel /\ spi.bus_taken = 1
                 /\ cmd # CMD12 => rv = 0
                 /\ pc' = (IF cmd = CMD12 THEN "sc_skip" ELSE "sc_poll")
          /\ (pc = "sc_skip" /\ pc' # pc) => (pc' = "sc_poll" /\ "xfer" \in hw')]_vars
    /\ [](pc = "sel_obtain" => (cs # spi.channel /\ spi.bus_taken = 0))

C25_BlockSize ==
    (Returned({"init"}) /\ retval = true) =>
        /\ unit.blockSize = 2 ^ ci.csd.read_block_len
        /\ unit.blockShift = ci.csd.read_block_len

\* spi_obtain was called with the bus held, which is still held once
C26_Witness == "reobtain" \in hw /\ spi.bus_taken = 1 /\ sem.nest = 1

\* C26: the nesting count of the semaphore, which is the number of times the
\* session obtained it minus the number of times it released it, equals bus_taken
\* and is 0 or 1; a call of spi_obtain with the bus held and a call of
\* spi_release with the bus not held leave the semaphore alone, and one
\* spi_release frees the semaphore whatever calls of spi_obtain came before
C26_Idempotent ==
    /\ [](/\ spi.bus_taken \in {0, 1}
          /\ IF sem.owner = "driver"
             THEN sem.nest = 1 /\ spi.bus_taken = 1
             ELSE spi.bus_taken = 0)
    /\ [][/\ (spi.bus_taken = 1 /\ spi'.bus_taken = 1) => sem' = sem
          /\ (spi.bus_taken = 0 /\ spi'.bus_taken = 0) => sem'.owner # "driver"
          /\ (spi.bus_taken = 1 /\ spi'.bus_taken = 0) =>
                 sem' = [owner |-> "none", nest |-> 0]]_vars

\* positions of the driver task whose next step changes the chip select lines or
\* clocks bytes on the bus
C27_AccessPoints ==
    {"ds_cs", "ds_clk", "sel_cs", "sel_chk", "wr_poll", "rb_tok", "rb_data",
     "wb_tok", "wb_data", "sc_frame", "sc_skip", "sc_poll", "init_desel",
     "init_clocks", "init_cmd8_r", "init_v2_ocr_r"}

\* C27: the driver is at a chip select change or a byte transfer only with the
\* bus obtained; in particular never while the second bus user holds the bus
\* with its own chip select asserted
C27_AccessHoldsBus ==
    pc \in C27_AccessPoints =>
        (spi.bus_taken = 1 /\ sem.owner = "driver" /\ other # "selected")

\* C28: a card that ata_init_unit reports ready is an SD v1.x, SD v2.0 or SDHC
\* card, the two block length exponents of its CSD are equal and its
\* total_sectors, an unsigned word, is at least 1
C28_ReadyCard ==
    (Returned({"init"}) /\ retval = true) =>
        /\ ci.type \in {sdCardType_SD1_x, sdCardType_SD2_0, sdCardType_SDHC}
        /\ ci.csd.read_block_len = ci.csd.write_block_len
        /\ ci.total_sectors # 0

\* C29: the geometry published by an ata_init_unit that returned true has 4 to 16
\* heads, 63, 127 or 255 sectors per track, total_sectors / (heads *
\* sectorsPerTrack) cylinders and not more than 65535 of them, logicalSectors =
\* total_sectors, and does not reach past the last sector (which, for a total
\* above 0x7fffffff, follows from the quotient)
C29_Geometry ==
    (Returned({"init"}) /\ retval = true) =>
        /\ unit.heads \in 4..16
        /\ unit.sectorsPerTrack \in {63, 127, 255}
        /\ unit.cylinders = UDiv32(ci.total_sectors, unit.heads * unit.sectorsPerTrack)
        /\ ULe32(unit.cylinders, 65535)
        /\ unit.logicalSectors = ci.total_sectors
        /\ ci.total_sectors >= 0 =>
               unit.cylinders * unit.heads * unit.sectorsPerTrack <= ci.total_sectors

====
